---- MODULE Spec2Model ----
(***************************************************************************)
(* A model of the President card-game engine of src/app.py: the Game      *)
(* object, the engine methods (play_cards, pass_turn, next_player, the    *)
(* exchange sub-engine) and the socket handlers that drive them.          *)
(*                                                                         *)
(* The deck is reduced to the ranks and suits of Ranks and Suits, and a    *)
(* game has one of the seatings of Tables; everything else follows the    *)
(* code.  Indices (current_player_idx, lead_player_idx) are 0-based   *)
(* as in the code; TLA+ sequences are 1-based, hence the "+ 1" on reads.  *)
(* Python's None is the string "None", except for finished_position,      *)
(* where it is NoPosition (the code treats None and 0 alike, and never    *)
(* assigns position 0).                                                    *)
(***************************************************************************)
EXTENDS Integers, Sequences, FiniteSets, TLC

(* ---------------------------------------------------------------- bounds *)
MaxRound == 1        \* rounds that are played; round MaxRound + 1 is only started
MaxSel == 3          \* longest list of card codes an intent carries

\* The deck of the model: the three highest ranks (K, A, 2) in two suits.
Ranks == {13, 14, 15}
Suits == {"S", "H"}

(* ------------------------------------------------------------- constants *)
TWO == 15            \* Rank.TWO = (15, '2')
NoPosition == 0      \* Player.finished_position = None
ExchangeIterations == 20
None == "None"

Card(r, s) == [rank |-> r, suit |-> s]
Deck == {Card(r, s) : r \in Ranks, s \in Suits}

PlayerIds == <<"p1", "p2", "p3", "p4">>

(* ------------------------------------------------------- sequence helpers *)
Range(s) == {s[i] : i \in 1..Len(s)}
Last(s) == s[Len(s)]
\* Python's s[-n:] if len(s) >= n else s[:]
LastN(s, n) == IF Len(s) >= n THEN SubSeq(s, Len(s) - n + 1, Len(s)) ELSE s

\* One step of a stable sort by rank: c goes after every card of rank <= its own.
InsertByRank(sorted, c) ==
    LET k == Cardinality({i \in 1..Len(sorted) : sorted[i].rank <= c.rank})
    IN  SubSeq(sorted, 1, k) \o <<c>> \o SubSeq(sorted, k + 1, Len(sorted))

\* list.sort(key=lambda c: c.rank.value[0]) / sorted(..., key=...): stable.
RECURSIVE SortByRank(_)
SortByRank(s) ==
    IF s = <<>> THEN <<>>
    ELSE InsertByRank(SortByRank(SubSeq(s, 1, Len(s) - 1)), s[Len(s)])

\* Player.add_card: append, then sort the hand by rank.
AddCard(hand, c) == SortByRank(Append(hand, c))

\* Player.remove_card: drop the first occurrence, if there is one.
RemoveCard(hand, c) ==
    IF c \in Range(hand)
    THEN LET i == CHOOSE j \in 1..Len(hand) :
                      hand[j] = c /\ \A k \in 1..(j - 1) : hand[k] # c
         IN  SubSeq(hand, 1, i - 1) \o SubSeq(hand, i + 1, Len(hand))
    ELSE hand

\* for c in cards: player.remove_card(c)
RECURSIVE RemoveCards(_, _)
RemoveCards(hand, cards) ==
    IF cards = <<>> THEN hand
    ELSE RemoveCards(RemoveCard(hand, Head(cards)), Tail(cards))

HasCards(p) == Len(p.hand) > 0

(* ------------------------------------------------------------------ melds *)
RunName(n) ==
    CASE n = 3 -> "RUN(3)" [] n = 4 -> "RUN(4)" [] n = 5 -> "RUN(5)" [] OTHER -> "RUN"

IsRunType(t) == t \in {"RUN(3)", "RUN(4)", "RUN(5)"}

\* a plausible slip: the ranks are taken in the order given, without sorting
IsConsecutiveAsGiven(cards) ==
    \A i \in 1..(Len(cards) - 1) : cards[i].rank + 1 = cards[i + 1].rank

IsConsecutive(cards) ==
    LET sorted == SortByRank(cards)
    IN  \A i \in 1..(Len(sorted) - 1) : sorted[i].rank + 1 = sorted[i + 1].rank

IsValidMeld(cards) ==
    IF Len(cards) = 0 THEN [valid |-> FALSE, mtype |-> "No cards"]
    ELSE IF Len(cards) > 5 THEN [valid |-> FALSE, mtype |-> "Too many cards (max 5)"]
    ELSE IF Len(cards) = 1 THEN [valid |-> TRUE, mtype |-> "SINGLE"]
    ELSE IF \A i \in 1..Len(cards) : cards[i].rank = cards[1].rank
         THEN CASE Len(cards) = 2 -> [valid |-> TRUE, mtype |-> "PAIR"]
                [] Len(cards) = 3 -> [valid |-> TRUE, mtype |-> "TRIPLE"]
                [] Len(cards) = 4 -> [valid |-> TRUE, mtype |-> "QUAD"]
                [] OTHER -> [valid |-> FALSE, mtype |-> "Invalid same-rank meld"]
    ELSE IF Len(cards) >= 3 /\ IsConsecutive(cards)
         THEN [valid |-> TRUE, mtype |-> RunName(Len(cards))]
    ELSE [valid |-> FALSE, mtype |-> "Invalid meld"]

GetMeldType(cards) ==
    LET r == IsValidMeld(cards) IN IF r.valid THEN r.mtype ELSE None

MaxRank(cards) == CHOOSE m \in {cards[i].rank : i \in 1..Len(cards)} :
                      \A i \in 1..Len(cards) : cards[i].rank <= m
MinRank(cards) == CHOOSE m \in {cards[i].rank : i \in 1..Len(cards)} :
                      \A i \in 1..Len(cards) : cards[i].rank >= m

\* a plausible slip: a play of equal rank wins as well
CompareMeldsOrEqual(played_meld, table_meld) ==
    LET ptype == GetMeldType(played_meld)
        ttype == GetMeldType(table_meld)
    IN  IF ptype = None \/ ttype = None THEN FALSE
        ELSE IF ptype # ttype THEN FALSE
        ELSE IF ptype = "SINGLE" THEN played_meld[1].rank >= table_meld[1].rank
        ELSE IF ptype \in {"PAIR", "TRIPLE", "QUAD"}
             THEN MaxRank(played_meld) >= MaxRank(table_meld)
        ELSE IF IsRunType(ptype)
             THEN IF Len(played_meld) # Len(table_meld) THEN FALSE
                  ELSE MinRank(played_meld) >= MinRank(table_meld)
        ELSE FALSE

\* compare_melds: does played_meld beat table_meld?
CompareMelds(played_meld, table_meld) ==
    LET ptype == GetMeldType(played_meld)
        ttype == GetMeldType(table_meld)
    IN  IF ptype = None \/ ttype = None THEN FALSE
        ELSE IF ptype # ttype THEN FALSE
        ELSE IF ptype = "SINGLE" THEN played_meld[1].rank > table_meld[1].rank
        ELSE IF ptype \in {"PAIR", "TRIPLE", "QUAD"}
             THEN MaxRank(played_meld) > MaxRank(table_meld)
        ELSE IF IsRunType(ptype)
             THEN IF Len(played_meld) # Len(table_meld) THEN FALSE
                  ELSE MinRank(played_meld) > MinRank(table_meld)
        ELSE FALSE

(* ------------------------------------------------------------ Player, Game *)
\* Player.__init__
NewPlayer(is_cpu) ==
    [is_cpu |-> is_cpu, hand |-> <<>>, role |-> "Citizen",
     finished_position |-> NoPosition, passed |-> FALSE]

\* Game.__init__ followed by add_player for each seat (on_create): `players` is the
\* dict, `player_keys` its insertion order (the order of players.values()).
NewGame(ids, cpus) ==
    [players |-> [pid \in Range(ids) |-> NewPlayer(pid \in cpus)],
     player_keys |-> ids,
     player_order |-> <<>>,
     original_player_order |-> <<>>,
     current_player_idx |-> 0,
     lead_player_idx |-> 0,
     table_cards |-> <<>>,
     table_meld_type |-> None,
     finished_count |-> 0,
     state |-> "waiting",
     round_num |-> 0,
     exchange_state_enum |-> None,
     cpu_playing |-> FALSE,
     showing_2 |-> FALSE]

\* players.values(), in dict order
PlayerSeq(g) == g.player_keys

WithCards(g) == {pid \in DOMAIN g.players : HasCards(g.players[pid])}

\* a plausible slip: the round is over only when nobody holds cards
GameOverWhenNoneLeft(g) == Cardinality(WithCards(g)) < 1

\* Game._game_over
GameOver(g) == Cardinality(WithCards(g)) <= 1

\* Game.get_current_player, as the player's id
GetCurrentPlayer(g) ==
    IF g.player_order = <<>> \/ g.current_player_idx >= Len(g.player_order) THEN None
    ELSE LET current_id == g.player_order[g.current_player_idx + 1]
         IN  IF current_id \in DOMAIN g.players THEN current_id ELSE None

ClearPassed(g) ==
    [g EXCEPT !.players = [pid \in DOMAIN g.players |->
                               [g.players[pid] EXCEPT !.passed = FALSE]]]

\* Game.next_player
RECURSIVE NextPlayerLoop(_, _)
NextPlayerLoop(g, attempts) ==
    IF attempts >= Len(g.player_order) * 2 THEN g
    ELSE LET g1 == [g EXCEPT !.current_player_idx =
                                 (g.current_player_idx + 1) % Len(g.player_order)]
             p == GetCurrentPlayer(g1)
         IN  IF p = None THEN NextPlayerLoop(g1, attempts + 1)
             ELSE IF ~HasCards(g1.players[p])
                  THEN NextPlayerLoop([g1 EXCEPT !.players[p].passed = TRUE],
                                      attempts + 1)
             ELSE g1

NextPlayer(g) == NextPlayerLoop(g, 0)

Result(g, ok, msg, round_over, show_2) ==
    [g |-> g, ok |-> ok, msg |-> msg, round_over |-> round_over, show_2 |-> show_2]

Rejected(g, msg) == Result(g, FALSE, msg, FALSE, FALSE)

\* a plausible slip: the position is given without counting the finisher
MarkFinishedUncounted(g, pid) ==
    IF ~HasCards(g.players[pid])
    THEN [g EXCEPT !.players[pid].finished_position = g.finished_count + 1]
    ELSE g

\* if not player.has_cards(): finished_count += 1; finished_position = finished_count
MarkFinished(g, pid) ==
    IF ~HasCards(g.players[pid])
    THEN [g EXCEPT !.finished_count = @ + 1,
                   !.players[pid].finished_position = g.finished_count + 1]
    ELSE g

\* the test of play_cards that selects the wild-reset branch
IsWildPlay(cards) == cards[1].rank = TWO

\* a plausible slip of the wild-reset branch: it advances the turn as the other
\* two branches do
PlayWildAdvances(g, player_id, cards) ==
    LET g1 == [g EXCEPT !.players[player_id].hand = RemoveCards(@, cards)]
        g2 == IF g1.table_cards = <<>>
              THEN [g1 EXCEPT !.lead_player_idx = g1.current_player_idx] ELSE g1
        g3 == ClearPassed([g2 EXCEPT !.table_cards = cards,
                                     !.table_meld_type = "SINGLE"])
        g4 == MarkFinished(g3, player_id)
    IN  IF GameOver(g4) THEN Result(g4, TRUE, "", TRUE, FALSE)
        ELSE Result(NextPlayer(g4), TRUE, "", FALSE, TRUE)

\* the three branches of play_cards, after the cards have been resolved and
\* classified: wild reset, lead on an empty table, beat the table
PlayWild(g, player_id, cards) ==
    LET g1 == [g EXCEPT !.players[player_id].hand = RemoveCards(@, cards)]
        g2 == IF g1.table_cards = <<>>
              THEN [g1 EXCEPT !.lead_player_idx = g1.current_player_idx] ELSE g1
        g3 == ClearPassed([g2 EXCEPT !.table_cards = cards,
                                     !.table_meld_type = "SINGLE"])
        g4 == MarkFinished(g3, player_id)
    IN  IF GameOver(g4) THEN Result(g4, TRUE, "", TRUE, FALSE)
        ELSE Result(g4, TRUE, "", FALSE, TRUE)

PlayLead(g, player_id, cards, meld_type_str) ==
    LET g1 == [g EXCEPT !.players[player_id].hand = RemoveCards(@, cards)]
        g3 == ClearPassed([g1 EXCEPT !.lead_player_idx = g1.current_player_idx,
                                     !.table_cards = cards,
                                     !.table_meld_type = meld_type_str])
        g4 == MarkFinished(g3, player_id)
    IN  IF GameOver(g4) THEN Result(g4, TRUE, "", TRUE, FALSE)
        ELSE Result(NextPlayer(g4), TRUE, "", FALSE, FALSE)

\* a plausible slip of the last branch: the cards leave the hand before the
\* comparison with the table is made
PlayBeatRemovesFirst(g, player_id, cards, meld_type_str) ==
    LET g1 == [g EXCEPT !.players[player_id].hand = RemoveCards(@, cards)]
        g3 == ClearPassed([g1 EXCEPT !.table_cards = cards,
                                     !.table_meld_type = meld_type_str])
        g4 == MarkFinished(g3, player_id)
    IN  IF ~CompareMelds(cards, g.table_cards) THEN Rejected(g1, "Invalid play")
        ELSE IF GameOver(g4) THEN Result(g4, TRUE, "", TRUE, FALSE)
        ELSE Result(NextPlayer(g4), TRUE, "", FALSE, FALSE)

\* the last branch: the meld must beat the table
PlayBeat(g, player_id, cards, meld_type_str) ==
    LET g1 == [g EXCEPT !.players[player_id].hand = RemoveCards(@, cards)]
        g3 == ClearPassed([g1 EXCEPT !.table_cards = cards,
                                     !.table_meld_type = meld_type_str])
        g4 == MarkFinished(g3, player_id)
    IN  IF ~CompareMelds(cards, g.table_cards) THEN Rejected(g, "Invalid play")
        ELSE IF GameOver(g4) THEN Result(g4, TRUE, "", TRUE, FALSE)
        ELSE Result(NextPlayer(g4), TRUE, "", FALSE, FALSE)

\* Game.play_cards.  A card code is modelled by the card it displays.
PlayCards(g, player_id, card_displays) ==
    IF GetCurrentPlayer(g) = None \/ GetCurrentPlayer(g) # player_id
    THEN Rejected(g, "Not your turn")
    ELSE IF \E i \in 1..Len(card_displays) :
                card_displays[i] \notin Range(g.players[player_id].hand)
    THEN Rejected(g, "Card not found")
    ELSE IF card_displays = <<>> THEN Rejected(g, "No cards selected")
    ELSE LET cards == card_displays
             vm == IsValidMeld(cards)
         IN  IF ~vm.valid THEN Rejected(g, "Invalid meld")
             ELSE IF IsWildPlay(cards) THEN PlayWild(g, player_id, cards)
             ELSE IF g.table_cards = <<>> THEN PlayLead(g, player_id, cards, vm.mtype)
             ELSE PlayBeat(g, player_id, cards, vm.mtype)

\* a plausible slip of pass_turn: the table is cleared only when no card holder
\* is left who has not passed
PassTurnClearsWhenNoneLeft(g, player_id) ==
    IF GetCurrentPlayer(g) = None \/ GetCurrentPlayer(g) # player_id
    THEN Rejected(g, "Not your turn")
    ELSE
    LET catchUp == ~HasCards(g.players[player_id])
                   /\ g.players[player_id].finished_position = NoPosition
        g1 == IF catchUp THEN MarkFinished(g, player_id) ELSE g
    IN  IF catchUp /\ GameOver(g1) THEN Result(g1, TRUE, "", TRUE, FALSE)
        ELSE IF Cardinality(WithCards(g1)) <= 1
        THEN Result(IF g1.players[player_id].finished_position = NoPosition
                    THEN [g1 EXCEPT !.finished_count = @ + 1,
                                    !.players[player_id].finished_position =
                                        g1.finished_count + 1]
                    ELSE g1,
                    TRUE, "", TRUE, FALSE)
        ELSE
        LET g2 == [g1 EXCEPT !.players[player_id].passed = TRUE]
            not_passed == {pid \in WithCards(g2) : ~g2.players[pid].passed}
            g3 == IF Cardinality(not_passed) < 1
                  THEN ClearPassed([g2 EXCEPT !.table_cards = <<>>,
                                              !.table_meld_type = None,
                                              !.lead_player_idx = 0])
                  ELSE g2
        IN  Result(NextPlayer(g3), TRUE, "", FALSE, FALSE)

\* Game.pass_turn
PassTurn(g, player_id) ==
    IF GetCurrentPlayer(g) = None \/ GetCurrentPlayer(g) # player_id
    THEN Rejected(g, "Not your turn")
    ELSE
    LET catchUp == ~HasCards(g.players[player_id])
                   /\ g.players[player_id].finished_position = NoPosition
        g1 == IF catchUp THEN MarkFinished(g, player_id) ELSE g
    IN  IF catchUp /\ GameOver(g1) THEN Result(g1, TRUE, "", TRUE, FALSE)
        ELSE IF Cardinality(WithCards(g1)) <= 1
        THEN Result(IF g1.players[player_id].finished_position = NoPosition
                    THEN [g1 EXCEPT !.finished_count = @ + 1,
                                    !.players[player_id].finished_position =
                                        g1.finished_count + 1]
                    ELSE g1,
                    TRUE, "", TRUE, FALSE)
        ELSE
        LET g2 == [g1 EXCEPT !.players[player_id].passed = TRUE]
            not_passed == {pid \in WithCards(g2) : ~g2.players[pid].passed}
            g3 == IF Cardinality(not_passed) <= 1
                  THEN ClearPassed([g2 EXCEPT !.table_cards = <<>>,
                                              !.table_meld_type = None,
                                              !.lead_player_idx = 0])
                  ELSE g2
        IN  Result(NextPlayer(g3), TRUE, "", FALSE, FALSE)

(* --------------------------------------------------------- rounds, dealing *)
\* random.shuffle(deck): any order of the deck
RECURSIVE Shuffles(_)
Shuffles(cards) ==
    IF cards = {} THEN {<<>>}
    ELSE UNION {{<<c>> \o rest : rest \in Shuffles(cards \ {c})} : c \in cards}

AllShuffles == Shuffles(Deck)

\* for i, card in enumerate(deck): players[player_order[i % n]].add_card(card),
\* as the hands of the n seats of player_order
RECURSIVE DealFrom(_, _, _)
DealFrom(hands, deck, i) ==
    IF i > Len(deck) THEN hands
    ELSE DealFrom([hands EXCEPT ![((i - 1) % Len(hands)) + 1] = AddCard(@, deck[i])],
                  deck, i + 1)

\* a plausible slip of the dealing loop: the last card of the deck is not dealt
DealHandsButLast(n, deck) ==
    DealFrom([k \in 1..n |-> <<>>], SubSeq(deck, 1, Len(deck) - 1), 1)

DealHands(n, deck) == DealFrom([k \in 1..n |-> <<>>], deck, 1)

\* the deals a shuffled deck can give n seats (computed once)
Deals == [n \in 1..4 |-> {DealHands(n, deck) : deck \in AllShuffles}]

\* hand = [] for every player, then the deal over player_order
DealTo(players, order, hands) ==
    [pid \in DOMAIN players |->
        [players[pid] EXCEPT !.hand =
            IF pid \in Range(order)
            THEN hands[CHOOSE i \in 1..Len(order) : order[i] = pid]
            ELSE <<>>]]

ResetPlayers(players, clearHands) ==
    [pid \in DOMAIN players |->
        [players[pid] EXCEPT !.hand = IF clearHands THEN <<>> ELSE @,
                             !.finished_position = NoPosition,
                             !.passed = FALSE]]

\* a plausible slip: the roles are reset whatever preserve_roles says
StartRoundResetsRoles(g, preserve_roles, hands) ==
    LET round_num == g.round_num + 1
        g1 == IF round_num = 1
              THEN [g EXCEPT !.round_num = round_num,
                             !.player_order = g.player_keys,
                             !.original_player_order = g.player_keys,
                             !.players = DealTo(ResetPlayers(g.players, TRUE),
                                                g.player_keys, hands)]
              ELSE [g EXCEPT !.round_num = round_num,
                             !.players = ResetPlayers(g.players, FALSE),
                             !.player_order = g.original_player_order]
        g2 == [g1 EXCEPT !.players = [pid \in DOMAIN g1.players |->
                                    [g1.players[pid] EXCEPT !.role = "Citizen"]]]
    IN  [g2 EXCEPT !.current_player_idx = 0,
                   !.lead_player_idx = 0,
                   !.table_cards = <<>>,
                   !.table_meld_type = None,
                   !.finished_count = 0,
                   !.state = "playing",
                   !.exchange_state_enum = None,
                   !.cpu_playing = FALSE,
                   !.showing_2 = FALSE]

\* Game.start_round; `hands` is what the shuffled deck deals (used in round 1 only)
StartRound(g, preserve_roles, hands) ==
    LET round_num == g.round_num + 1
        g1 == IF round_num = 1
              THEN [g EXCEPT !.round_num = round_num,
                             !.player_order = g.player_keys,
                             !.original_player_order = g.player_keys,
                             !.players = DealTo(ResetPlayers(g.players, TRUE),
                                                g.player_keys, hands)]
              ELSE [g EXCEPT !.round_num = round_num,
                             !.players = ResetPlayers(g.players, FALSE),
                             !.player_order = g.original_player_order]
        g2 == IF ~preserve_roles
              THEN [g1 EXCEPT !.players = [pid \in DOMAIN g1.players |->
                                    [g1.players[pid] EXCEPT !.role = "Citizen"]]]
              ELSE g1
    IN  [g2 EXCEPT !.current_player_idx = 0,
                   !.lead_player_idx = 0,
                   !.table_cards = <<>>,
                   !.table_meld_type = None,
                   !.finished_count = 0,
                   !.state = "playing",
                   !.exchange_state_enum = None,
                   !.cpu_playing = FALSE,
                   !.showing_2 = FALSE]

\* the sort key of _assign_roles: finished_position if finished_position else 999
RoleSortKey(p) == IF p.finished_position # NoPosition THEN p.finished_position ELSE 999

\* sorted(players.values(), key=...): stable, over the dict order
RECURSIVE SortByFinish(_, _)
SortByFinish(g, ids) ==
    IF ids = <<>> THEN <<>>
    ELSE LET sorted == SortByFinish(g, SubSeq(ids, 1, Len(ids) - 1))
             x == ids[Len(ids)]
             k == Cardinality({i \in 1..Len(sorted) :
                      RoleSortKey(g.players[sorted[i]]) <= RoleSortKey(g.players[x])})
         IN  SubSeq(sorted, 1, k) \o <<x>> \o SubSeq(sorted, k + 1, Len(sorted))

\* a plausible slip of the 4-player table: the two vice roles exchanged
RolesByPositionVicesSwapped(num_players, position) ==
    CASE num_players = 2 /\ position = 1 -> "President"
      [] num_players = 2 /\ position = 2 -> "Asshole"
      [] num_players = 3 /\ position = 1 -> "President"
      [] num_players = 3 /\ position = 2 -> "Citizen"
      [] num_players = 3 /\ position = 3 -> "Asshole"
      [] num_players = 4 /\ position = 1 -> "President"
      [] num_players = 4 /\ position = 2 -> "Vice Asshole"
      [] num_players = 4 /\ position = 3 -> "Vice President"
      [] num_players = 4 /\ position = 4 -> "Asshole"
      [] OTHER -> "Citizen"

RolesByPosition(num_players, position) ==
    CASE num_players = 2 /\ position = 1 -> "President"
      [] num_players = 2 /\ position = 2 -> "Asshole"
      [] num_players = 3 /\ position = 1 -> "President"
      [] num_players = 3 /\ position = 2 -> "Citizen"
      [] num_players = 3 /\ position = 3 -> "Asshole"
      [] num_players = 4 /\ position = 1 -> "President"
      [] num_players = 4 /\ position = 2 -> "Vice President"
      [] num_players = 4 /\ position = 3 -> "Vice Asshole"
      [] num_players = 4 /\ position = 4 -> "Asshole"
      [] OTHER -> "Citizen"

\* Game._assign_roles
AssignRoles(g) ==
    LET finished == SortByFinish(g, PlayerSeq(g))
        num_players == Cardinality(DOMAIN g.players)
    IN  [g EXCEPT !.players = [pid \in DOMAIN g.players |->
            [g.players[pid] EXCEPT !.role =
                RolesByPosition(num_players,
                    CHOOSE i \in 1..Len(finished) : finished[i] = pid)]]]

\* Game._deal_new_hands
DealNewHands(g, hands) ==
    [g EXCEPT !.players = DealTo(ResetPlayers(g.players, TRUE), g.player_order, hands),
              !.table_cards = <<>>,
              !.table_meld_type = None,
              !.finished_count = 0,
              !.cpu_playing = FALSE,
              !.showing_2 = FALSE]

\* Game.start_exchange_phase
StartExchangePhase(g, hands) ==
    [DealNewHands(AssignRoles(g), hands) EXCEPT
        !.state = "exchange",
        !.exchange_state_enum = "WAITING_PRESIDENT"]

(* ------------------------------------------------------ exchange sub-engine *)
\* next((p for p in players.values() if p.role == role), None)
GetByRole(g, role) ==
    LET keys == PlayerSeq(g)
        hits == {i \in 1..Len(keys) : g.players[keys[i]].role = role}
    IN  IF hits = {} THEN None
        ELSE keys[CHOOSE i \in hits : \A j \in hits : i <= j]

GetPresident(g) == GetByRole(g, "President")
GetAsshole(g) == GetByRole(g, "Asshole")
GetVp(g) == GetByRole(g, "Vice President")
GetVa(g) == GetByRole(g, "Vice Asshole")

\* Game.get_player_for_current_exchange
GetPlayerForCurrentExchange(g) ==
    CASE g.exchange_state_enum = "WAITING_PRESIDENT" -> GetPresident(g)
      [] g.exchange_state_enum = "WAITING_ASSHOLE" -> GetAsshole(g)
      [] g.exchange_state_enum = "WAITING_VP" -> GetVp(g)
      [] g.exchange_state_enum = "WAITING_VA" -> GetVa(g)
      [] OTHER -> None

\* a plausible slip of the swap: the counterpart's cards are not handed back
SwapCardsOneWay(g, player, other, cards, other_cards) ==
    LET g1 == [g EXCEPT !.players[player].hand = RemoveCards(@, cards)]
    IN  [g1 EXCEPT !.players[other].hand = AddCard(@, Last(cards))]

\* The four statements of a swap in _execute_exchange_submission:
\*     for c in cards: player.remove_card(c)
\*     other.add_card(c)                 (after the loop: c is the last of cards)
\*     for c in other_cards: other.remove_card(c)
\*     player.add_card(c)                (c is the last of other_cards, or still the
\*                                        last of cards when other_cards is empty)
SwapCards(g, player, other, cards, other_cards) ==
    LET g1 == [g EXCEPT !.players[player].hand = RemoveCards(@, cards)]
        g2 == [g1 EXCEPT !.players[other].hand = AddCard(@, Last(cards))]
        g3 == [g2 EXCEPT !.players[other].hand = RemoveCards(@, other_cards)]
        c == IF other_cards # <<>> THEN Last(other_cards) ELSE Last(cards)
    IN  [g3 EXCEPT !.players[player].hand = AddCard(@, c)]

\* a plausible slip: the vice stage follows without asking whether there are vices
AfterFirstPairAlwaysVice(g) == [g EXCEPT !.exchange_state_enum = "WAITING_VP"]

\* vp and va both exist: WAITING_VP, otherwise COMPLETE and state = 'playing'
AfterFirstPair(g) ==
    IF GetVp(g) # None /\ GetVa(g) # None
    THEN [g EXCEPT !.exchange_state_enum = "WAITING_VP"]
    ELSE [g EXCEPT !.exchange_state_enum = "COMPLETE", !.state = "playing"]

\* a plausible slip: the sub-state is completed but the state stays 'exchange'
ExchangeCompleteKeepsState(g) == [g EXCEPT !.exchange_state_enum = "COMPLETE"]

ExchangeComplete(g) ==
    [g EXCEPT !.exchange_state_enum = "COMPLETE", !.state = "playing"]

Submitted(g, ok) == [g |-> g, ok |-> ok]

\* Game._execute_exchange_submission; cards is never empty (both callers check)
ExecuteExchangeSubmission(g, player, cards) ==
    CASE g.exchange_state_enum = "WAITING_PRESIDENT" ->
            LET asshole == GetAsshole(g)
            IN  IF asshole = None THEN Submitted(g, FALSE)
                ELSE IF g.players[asshole].is_cpu
                THEN Submitted(AfterFirstPair(SwapCards(g, player, asshole, cards,
                                   LastN(g.players[asshole].hand, 2))), TRUE)
                ELSE Submitted([g EXCEPT !.exchange_state_enum = "WAITING_ASSHOLE"], TRUE)
      [] g.exchange_state_enum = "WAITING_ASSHOLE" ->
            LET president == GetPresident(g)
            IN  IF president = None THEN Submitted(g, FALSE)
                ELSE IF g.players[president].is_cpu
                THEN Submitted(AfterFirstPair(SwapCards(g, player, president, cards,
                                   LastN(g.players[president].hand, 2))), TRUE)
                ELSE Submitted(AfterFirstPair(g), TRUE)
      [] g.exchange_state_enum = "WAITING_VP" ->
            LET va == GetVa(g)
            IN  IF va = None THEN Submitted(g, FALSE)
                ELSE IF g.players[va].is_cpu
                THEN Submitted(ExchangeComplete(SwapCards(g, player, va, cards,
                                   LastN(g.players[va].hand, 1))), TRUE)
                ELSE Submitted([g EXCEPT !.exchange_state_enum = "WAITING_VA"], TRUE)
      [] g.exchange_state_enum = "WAITING_VA" ->
            LET vp == GetVp(g)
            IN  IF vp = None THEN Submitted(g, FALSE)
                ELSE IF g.players[vp].is_cpu
                THEN Submitted(ExchangeComplete(SwapCards(g, player, vp, cards,
                                   LastN(g.players[vp].hand, 1))), TRUE)
                ELSE Submitted(ExchangeComplete(g), TRUE)
      [] OTHER -> Submitted(g, FALSE)

\* Game._force_cpu_exchange
RequiredRole(state) ==
    CASE state = "WAITING_PRESIDENT" -> "President"
      [] state = "WAITING_ASSHOLE" -> "Asshole"
      [] state = "WAITING_VP" -> "Vice President"
      [] state = "WAITING_VA" -> "Vice Asshole"
      [] OTHER -> None

\* a plausible slip: two cards are asked for in every stage
RequiredCountAlwaysTwo(state) == 2

RequiredCount(state) ==
    IF state \in {"WAITING_PRESIDENT", "WAITING_ASSHOLE"} THEN 2 ELSE 1

ForceCpuExchange(g, player) ==
    IF ~g.players[player].is_cpu THEN Submitted(g, FALSE)
    ELSE IF RequiredRole(g.exchange_state_enum) = None THEN Submitted(g, FALSE)
    ELSE IF g.players[player].role # RequiredRole(g.exchange_state_enum)
         THEN Submitted(g, FALSE)
    ELSE LET cards == LastN(g.players[player].hand, RequiredCount(g.exchange_state_enum))
         IN  IF cards = <<>> THEN Submitted(g, FALSE)
             ELSE ExecuteExchangeSubmission(g, player, cards)

\* Game.complete_all_exchanges: the driver loop, `iteration` iterations done so far
RECURSIVE CompleteLoop(_, _)
CompleteLoop(g, iteration) ==
    IF iteration >= ExchangeIterations THEN g
    ELSE LET current_player == GetPlayerForCurrentExchange(g)
         IN  IF current_player = None THEN g
             ELSE IF g.exchange_state_enum = "COMPLETE" THEN g
             ELSE IF ~g.players[current_player].is_cpu THEN g
             ELSE LET r == ForceCpuExchange(g, current_player)
                  IN  IF ~r.ok THEN r.g ELSE CompleteLoop(r.g, iteration + 1)

CompleteAllExchanges(g) == CompleteLoop(g, 0)

\* the same loop, as the games at the start of each iteration and at the return
RECURSIVE DriverTrace(_, _)
DriverTrace(g, iteration) ==
    IF iteration >= ExchangeIterations THEN <<g>>
    ELSE LET current_player == GetPlayerForCurrentExchange(g)
         IN  IF current_player = None THEN <<g>>
             ELSE IF g.exchange_state_enum = "COMPLETE" THEN <<g>>
             ELSE IF ~g.players[current_player].is_cpu THEN <<g>>
             ELSE LET r == ForceCpuExchange(g, current_player)
                  IN  IF ~r.ok THEN <<g>>
                      ELSE <<g>> \o DriverTrace(r.g, iteration + 1)

\* a plausible slip: the number of submitted cards is not checked
HumanSubmitExchangeAnyCount(g, player_id, card_displays) ==
    IF player_id \notin DOMAIN g.players THEN Rejected(g, "Player not found")
    ELSE IF g.state # "exchange" THEN Rejected(g, "Not in exchange phase")
    ELSE IF \E i \in 1..Len(card_displays) :
                card_displays[i] \notin Range(g.players[player_id].hand)
    THEN Rejected(g, "Card not found")
    ELSE IF card_displays = <<>> THEN Rejected(g, "No cards selected")
    ELSE IF RequiredRole(g.exchange_state_enum) = None THEN Rejected(g, "Invalid state")
    ELSE IF g.players[player_id].role # RequiredRole(g.exchange_state_enum)
         THEN Rejected(g, "Not your turn")
    ELSE LET r == ExecuteExchangeSubmission(g, player_id, card_displays)
         IN  IF ~r.ok THEN Rejected(g, "Exchange failed")
             ELSE Result(r.g, TRUE, "", FALSE, FALSE)

\* Game.human_submit_exchange
HumanSubmitExchange(g, player_id, card_displays) ==
    IF player_id \notin DOMAIN g.players THEN Rejected(g, "Player not found")
    ELSE IF g.state # "exchange" THEN Rejected(g, "Not in exchange phase")
    ELSE IF \E i \in 1..Len(card_displays) :
                card_displays[i] \notin Range(g.players[player_id].hand)
    THEN Rejected(g, "Card not found")
    ELSE IF card_displays = <<>> THEN Rejected(g, "No cards selected")
    ELSE IF RequiredRole(g.exchange_state_enum) = None THEN Rejected(g, "Invalid state")
    ELSE IF g.players[player_id].role # RequiredRole(g.exchange_state_enum)
         THEN Rejected(g, "Not your turn")
    ELSE IF Len(card_displays) # RequiredCount(g.exchange_state_enum)
         THEN Rejected(g, "Wrong card count")
    ELSE LET r == ExecuteExchangeSubmission(g, player_id, card_displays)
         IN  IF ~r.ok THEN Rejected(g, "Exchange failed")
             ELSE Result(r.g, TRUE, "", FALSE, FALSE)

(* -------------------------------------------------------- CPU move generator *)
Matching(hand, rank) == SelectSeq(hand, LAMBDA c : c.rank = rank)

\* the slices sorted_cards[i:i+n] of the rank-sorted hand that are runs (i is 0-based)
RunStarts(hand, n) ==
    LET sorted_cards == SortByRank(hand)
    IN  {i \in 0..(Len(sorted_cards) - n) :
            \A j \in 1..(n - 1) :
                sorted_cards[i + j].rank + 1 = sorted_cards[i + j + 1].rank}

RunAt(hand, i, n) == SubSeq(SortByRank(hand), i + 1, i + n)

\* a plausible slip: a meld of the table's own rank is listed as well
SameRankPlaysOrEqual(hand, n, above) ==
    {SubSeq(Matching(hand, r), 1, n) :
        r \in {c.rank : c \in {x \in Range(hand) :
                   Len(Matching(hand, x.rank)) >= n /\ x.rank >= above}}}

SameRankPlays(hand, n, above) ==
    {SubSeq(Matching(hand, r), 1, n) :
        r \in {c.rank : c \in {x \in Range(hand) :
                   Len(Matching(hand, x.rank)) >= n /\ x.rank > above}}}

\* get_valid_plays, as the set of the plays it lists
GetValidPlays(hand, table_meld_type, table_cards) ==
    IF table_cards = <<>>
    THEN {<<hand[i]>> : i \in 1..Len(hand)}
         \cup SameRankPlays(hand, 2, 0) \cup SameRankPlays(hand, 3, 0)
         \cup SameRankPlays(hand, 4, 0)
         \cup UNION {{RunAt(hand, i, n) : i \in RunStarts(hand, n)} : n \in {3, 4, 5}}
    ELSE LET table_rank == table_cards[1].rank
             table_count == Len(table_cards)
         IN  CASE table_meld_type = "SINGLE" ->
                    {<<hand[i]>> : i \in {j \in 1..Len(hand) : hand[j].rank > table_rank}}
               [] table_meld_type = "PAIR" -> SameRankPlays(hand, 2, table_rank)
               [] table_meld_type = "TRIPLE" -> SameRankPlays(hand, 3, table_rank)
               [] table_meld_type = "QUAD" -> SameRankPlays(hand, 4, table_rank)
               [] IsRunType(table_meld_type) ->
                    {RunAt(hand, i, table_count) :
                        i \in {j \in RunStarts(hand, table_count) :
                                 MinRank(RunAt(hand, j, table_count)) > MinRank(table_cards)}}
               [] OTHER -> {}

\* plays[0]: the candidates that can come first in the list.  Singles and runs are
\* listed in hand order; the same-rank melds are listed in the iteration order of
\* a set of Rank members, which differs from one process to the next.
FirstPlays(hand, table_meld_type, table_cards) ==
    LET plays == GetValidPlays(hand, table_meld_type, table_cards)
    IN  IF plays = {} THEN {}
        ELSE IF table_cards = <<>> THEN {<<hand[1]>>}
        ELSE IF table_meld_type = "SINGLE"
        THEN {<<hand[CHOOSE i \in 1..Len(hand) :
                      /\ hand[i].rank > table_cards[1].rank
                      /\ \A j \in 1..(i - 1) : hand[j].rank <= table_cards[1].rank]>>}
        ELSE IF IsRunType(table_meld_type)
        THEN LET n == Len(table_cards)
                 ok == {j \in RunStarts(hand, n) :
                           MinRank(RunAt(hand, j, n)) > MinRank(table_cards)}
             IN  {RunAt(hand, CHOOSE i \in ok : \A j \in ok : i <= j, n)}
        ELSE plays

(* ------------------------------------------------------------------- state *)
VARIABLES
    game,        \* the Game object of the table (games[gid])
    pc,          \* the handler running its synchronous part: who and where
    show2_wait,  \* an on_play handler is suspended in its time.sleep(1.0)
    cpu_wait,    \* the player an on_cpu_play handler captured before time.sleep(0.8)
    last         \* the result of the last engine call

vars == <<game, pc, show2_wait, cpu_wait, last>>

Idle == [handler |-> None, at |-> "idle"]

Humans(g) == {pid \in DOMAIN g.players : ~g.players[pid].is_cpu}

\* the card lists an intent of pid may carry: up to MaxSel codes of the hand, with
\* repeats, and one code that is not in the hand
Codes(g, pid) ==
    LET hand == Range(g.players[pid].hand)
    IN  hand \cup (IF Deck \ hand = {} THEN {}
                   ELSE {CHOOSE c \in Deck \ hand : TRUE})

Selections(g, pid) == UNION {[1..n -> Codes(g, pid)] : n \in 0..MaxSel}

\* what an engine call returned, for whom, with which codes, over which table
Outcome(op, pid, cards, g, r) ==
    [op |-> op, pid |-> pid, cards |-> cards, table_before |-> g.table_cards,
     ok |-> r.ok, msg |-> r.msg, round_over |-> r.round_over, show_2 |-> r.show_2]

NoOutcome == [op |-> None, pid |-> None, cards |-> <<>>, table_before |-> <<>>,
              ok |-> FALSE, msg |-> "", round_over |-> FALSE, show_2 |-> FALSE]

\* a step of a handler that is no engine call on behalf of a player
Step(op) == [NoOutcome EXCEPT !.op = op]

Table(n, cpus) == [ids |-> SubSeq(PlayerIds, 1, n), cpus |-> cpus]

\* on_create for a new table seats the creator (human) first and then the computer
\* players; a seat a person has taken over from a computer (on_create for an
\* existing table) is human.
Tables == {Table(2, {"p2"}), Table(3, {"p2", "p3"})}

InitWith(tables) ==
    /\ \E t \in tables : game = NewGame(t.ids, t.cpus)
    /\ pc = [handler |-> "create", at |-> "start_round"]
    /\ show2_wait = FALSE
    /\ cpu_wait = None
    /\ last = NoOutcome

Init == InitWith(Tables)

\* the rounds the model plays
Live == game.round_num <= MaxRound

(* ---------------------------------------------------------------- handlers *)
\* on_create: if game.can_start(): game.start_round()
OnCreateStartRound ==
    /\ pc = [handler |-> "create", at |-> "start_round"]
    /\ \E hands \in Deals[Len(game.player_keys)] :
           game' = StartRound(game, FALSE, hands)
    /\ pc' = Idle
    /\ last' = Step("start_round")
    /\ UNCHANGED <<show2_wait, cpu_wait>>

\* on_play, up to its return or its time.sleep
OnPlay(pid, cards) ==
    /\ pc = Idle
    /\ Live
    /\ IF game.showing_2
       THEN UNCHANGED vars
       ELSE LET r == PlayCards(game, pid, cards)
            IN  IF ~r.ok
                THEN /\ game' = r.g
                     /\ UNCHANGED <<pc, show2_wait, cpu_wait, last>>
                ELSE /\ last' = Outcome("play", pid, cards, game, r)
                     /\ game' = IF r.show_2 THEN [r.g EXCEPT !.showing_2 = TRUE] ELSE r.g
                     /\ pc' = IF r.round_over
                              THEN [handler |-> "play", at |-> "round_over"] ELSE Idle
                     /\ show2_wait' = IF r.show_2 THEN TRUE ELSE show2_wait
                     /\ UNCHANGED cpu_wait

\* on_play after time.sleep(1.0): clear the table the 2 was shown on
OnPlayClear ==
    /\ pc = Idle
    /\ Live
    /\ show2_wait
    /\ game' = [ClearPassed(game) EXCEPT !.table_cards = <<>>,
                                         !.table_meld_type = None,
                                         !.showing_2 = FALSE]
    /\ show2_wait' = FALSE
    /\ last' = [last EXCEPT !.op = "clear_2"]
    /\ UNCHANGED <<pc, cpu_wait>>

\* on_pass
OnPass(pid) ==
    /\ pc = Idle
    /\ Live
    /\ IF game.showing_2
       THEN UNCHANGED vars
       ELSE LET r == PassTurn(game, pid)
            IN  IF ~r.ok
                THEN /\ game' = r.g
                     /\ UNCHANGED <<pc, show2_wait, cpu_wait, last>>
                ELSE /\ last' = Outcome("pass", pid, <<>>, game, r)
                     /\ game' = r.g
                     /\ pc' = IF r.round_over
                              THEN [handler |-> "pass", at |-> "round_over"] ELSE Idle
                     /\ UNCHANGED <<show2_wait, cpu_wait>>

\* on_cpu_play, up to its return or its time.sleep(0.8)
OnCpuPlay ==
    /\ pc = Idle
    /\ Live
    /\ ~game.cpu_playing
    /\ LET current == GetCurrentPlayer(game)
       IN  IF \/ game.state # "playing"
              \/ current = None
              \/ ~game.players[current].is_cpu
              \/ ~HasCards(game.players[current])
           THEN UNCHANGED vars
           ELSE /\ game' = [game EXCEPT !.cpu_playing = TRUE]
                /\ cpu_wait' = current
                /\ UNCHANGED <<pc, show2_wait, last>>

\* plays = get_valid_plays(current, ...); pass_turn if not plays, else play_cards(plays[0])
CpuMoves(g, current) ==
    LET plays == FirstPlays(g.players[current].hand, g.table_meld_type, g.table_cards)
    IN  IF plays = {}
        THEN {[op |-> "pass", cards |-> <<>>, r |-> PassTurn(g, current)]}
        ELSE {[op |-> "play", cards |-> play, r |-> PlayCards(g, current, play)] :
                 play \in plays}

\* on_cpu_play after the sleep: the move, and the return through `finally`
OnCpuMove ==
    /\ pc = Idle
    /\ Live
    /\ cpu_wait # None
    /\ \E m \in CpuMoves(game, cpu_wait) :
          /\ last' = Outcome(m.op, cpu_wait, m.cards, game, m.r)
          /\ IF m.r.round_over
             THEN /\ game' = m.r.g
                  /\ pc' = [handler |-> "cpu", at |-> "round_over"]
             ELSE /\ game' = [m.r.g EXCEPT !.cpu_playing = FALSE]
                  /\ pc' = Idle
    /\ cpu_wait' = None
    /\ UNCHANGED show2_wait

\* the round_over branch of on_play, on_pass and on_cpu_play: start_exchange_phase
OnRoundOver ==
    /\ pc.at = "round_over"
    /\ \E hands \in Deals[Len(game.player_order)] :
           game' = StartExchangePhase(game, hands)
    /\ pc' = [pc EXCEPT !.at = "exchange"]
    /\ last' = Step("start_exchange_phase")
    /\ UNCHANGED <<show2_wait, cpu_wait>>

\* on_submit_exchange, up to game.complete_all_exchanges()
OnSubmitExchange(pid, cards) ==
    /\ pc = Idle
    /\ Live
    /\ LET r == HumanSubmitExchange(game, pid, cards)
       IN  IF ~r.ok
           THEN /\ game' = r.g
                /\ UNCHANGED <<pc, show2_wait, cpu_wait, last>>
           ELSE /\ last' = Outcome("submit_exchange", pid, cards, game, r)
                /\ game' = r.g
                /\ pc' = [handler |-> "submit", at |-> "exchange"]
                /\ UNCHANGED <<show2_wait, cpu_wait>>

\* game.complete_all_exchanges() in the four handlers
OnCompleteExchanges ==
    /\ pc.at = "exchange"
    /\ game' = CompleteAllExchanges(game)
    /\ pc' = [pc EXCEPT !.at = "resume"]
    /\ last' = Step("complete_all_exchanges")
    /\ UNCHANGED <<show2_wait, cpu_wait>>

\* if game.state == 'playing': game.start_round(preserve_roles=True); then the
\* handler returns (on_cpu_play through its finally: cpu_playing = False)
OnResume ==
    /\ pc.at = "resume"
    /\ LET g1 == IF game.state = "playing"
                 THEN StartRound(game, TRUE, <<>>) ELSE game
       IN  game' = IF pc.handler = "cpu" THEN [g1 EXCEPT !.cpu_playing = FALSE] ELSE g1
    /\ pc' = Idle
    /\ last' = Step(IF game.state = "playing" THEN "start_round" ELSE "wait_human")
    /\ UNCHANGED <<show2_wait, cpu_wait>>

Next ==
    \/ OnCreateStartRound
    \/ \E pid \in Humans(game) : \E cards \in Selections(game, pid) : OnPlay(pid, cards)
    \/ OnPlayClear
    \/ \E pid \in Humans(game) : OnPass(pid)
    \/ OnCpuPlay
    \/ OnCpuMove
    \/ OnRoundOver
    \/ \E pid \in Humans(game) : \E cards \in Selections(game, pid) :
           OnSubmitExchange(pid, cards)
    \/ OnCompleteExchanges
    \/ OnResume

Spec == Init /\ [][Next]_vars

\* the same handlers over the tables of two, three and four seats
TablesOfFour == {Table(4, {"p2", "p3", "p4"})}

InitAllTables == InitWith(Tables \cup TablesOfFour)

SpecAllTables == InitAllTables /\ [][Next]_vars

TypeOK ==
    /\ game.state \in {"waiting", "playing", "exchange"}
    /\ cpu_wait # None => game.cpu_playing

(* ------------------------------------------------------------------ claims *)
Players == DOMAIN game.players
Hand(pid) == game.players[pid].hand

CountIn(s, c) == Cardinality({i \in 1..Len(s) : s[i] = c})

RECURSIVE InHands(_, _, _)
InHands(g, keys, c) ==
    IF keys = <<>> THEN 0
    ELSE CountIn(g.players[Head(keys)].hand, c) + InHands(g, Tail(keys), c)

\* how often card c occurs in the hands and on the table
Occurrences(g, c) == InHands(g, g.player_keys, c) + CountIn(g.table_cards, c)

NoRepeat(cards) == \A i, j \in 1..Len(cards) : cards[i] = cards[j] => i = j

\* the first player after pid in seat order, wrapping, who holds a card (pid last)
NextHolder(g, pid) ==
    LET n == Len(g.player_order)
        i == CHOOSE k \in 1..n : g.player_order[k] = pid
        seat(k) == g.player_order[((i - 1 + k) % n) + 1]
        ks == {k \in 1..n : HasCards(g.players[seat(k)])}
    IN  IF ks = {} THEN None ELSE seat(CHOOSE k \in ks : \A m \in ks : k <= m)

\* the claim's notion of beating: same kind (runs: same length), strictly higher
\* rank (runs: strictly higher minimum)
SameKindHigher(played, table) ==
    /\ GetMeldType(played) # None
    /\ GetMeldType(played) = GetMeldType(table)
    /\ IF IsRunType(GetMeldType(played))
       THEN Len(played) = Len(table) /\ MinRank(played) > MinRank(table)
       ELSE played[1].rank > table[1].rank

\* C1: at the start of every round, before the first card is played, the hands and
\* the table hold each card of the deck exactly once.
C1_RoundStartsWithWholeDeck ==
    (last.op = "start_round" /\ pc = Idle)
        => \A c \in Deck : Occurrences(game, c) = 1

\* C2: in every reachable state no card occurs more than once across the hands
\* and the table.
C2_NoCardTwice == \A c \in Deck : Occurrences(game, c) <= 1

\* C3: when it is a player's turn and the player selects exactly one 2 of the hand,
\* play_cards accepts it over any table: the card leaves the hand, the table is that
\* card with kind SINGLE, every passed flag is cleared, and current_player_idx is
\* not changed.
C3_SingleTwoAlwaysAccepted ==
    \A pid \in Players : \A i \in 1..Len(Hand(pid)) :
        LET c == Hand(pid)[i]
            r == PlayCards(game, pid, <<c>>)
        IN  (GetCurrentPlayer(game) = pid /\ c.rank = TWO) =>
                /\ r.ok
                /\ r.g.players[pid].hand = RemoveCard(Hand(pid), c)
                /\ Len(r.g.players[pid].hand) = Len(Hand(pid)) - 1
                /\ r.g.table_cards = <<c>>
                /\ r.g.table_meld_type = "SINGLE"
                /\ \A q \in Players : ~r.g.players[q].passed
                /\ r.g.current_player_idx = game.current_player_idx

\* C3 witness: a single 2 has just been played over a pair.
C3_TwoPlayedOverPair ==
    /\ last.op = "play" /\ last.ok
    /\ Len(last.cards) = 1 /\ last.cards[1].rank = TWO
    /\ GetMeldType(last.table_before) = "PAIR"
    /\ game.table_cards = last.cards
    /\ game.table_meld_type = "SINGLE"

\* C4: after an accepted single-2 play that does not end the round, by a human or
\* by a computer player, the table is cleared before any further play or pass is
\* applied.
C4_ClearedBeforeNextMove ==
    [][(last.op = "play" /\ last.ok /\ last.show_2)
           => ~(last' # last /\ last'.op \in {"play", "pass"})]_vars

\* C5: once a single 2 has been played and the table cleared, the turn is with the
\* next card-holding player in seat order after the one who played the 2, not
\* with the player who played it.
C5_TurnMovesOnAfterTwo ==
    (last.op = "clear_2" /\ pc = Idle /\ game.state = "playing"
     /\ Cardinality(WithCards(game) \ {last.pid}) >= 1)
        => /\ GetCurrentPlayer(game) # last.pid
           /\ GetCurrentPlayer(game) = NextHolder(game, last.pid)

\* C6: every accepted play of two or more cards over a non-empty table has the
\* kind of the table meld (runs: its length) and a strictly higher rank (runs:
\* minimum); only one single 2 is exempt from beating the table.
C6_MultiCardPlaysBeatTable ==
    \A pid \in Players : \A cards \in Selections(game, pid) :
        (/\ game.table_cards # <<>>
         /\ Len(cards) >= 2
         /\ NoRepeat(cards)
         /\ PlayCards(game, pid, cards).ok)
            => SameKindHigher(cards, game.table_cards)

\* C7: on an empty table every valid meld of the current player's hand other than
\* a single 2 is accepted: the cards leave the hand, the table holds the meld with
\* its kind, lead_player_idx is the player's index, all passed flags are false, and
\* unless the round is over the turn moves to the next player holding a card.
C7_LeadOnEmptyTable ==
    \A pid \in Players : \A cards \in Selections(game, pid) :
        LET r == PlayCards(game, pid, cards)
            vm == IsValidMeld(cards)
        IN  (/\ GetCurrentPlayer(game) = pid
             /\ game.table_cards = <<>>
             /\ Range(cards) \subseteq Range(Hand(pid))
             /\ NoRepeat(cards)
             /\ vm.valid
             /\ ~(Len(cards) = 1 /\ cards[1].rank = TWO))
                => /\ r.ok
                   /\ r.g.players[pid].hand = RemoveCards(Hand(pid), cards)
                   /\ r.g.table_cards = cards
                   /\ r.g.table_meld_type = vm.mtype
                   /\ r.g.lead_player_idx = game.current_player_idx
                   /\ \A q \in Players : ~r.g.players[q].passed
                   /\ ~r.round_over =>
                          GetCurrentPlayer(r.g) = NextHolder(r.g, pid)

\* C8: a rejected play_cards or pass_turn returns ok = False with a reason and
\* leaves the whole game state unchanged; a caller who is not the current player,
\* a code that is not in the hand and an invalid meld are rejected.
C8_RejectionChangesNothing ==
    \A pid \in Players :
        /\ \A cards \in Selections(game, pid) :
              LET r == PlayCards(game, pid, cards)
              IN  /\ ~r.ok => (r.g = game /\ r.msg # "")
                  /\ (\/ GetCurrentPlayer(game) # pid
                      \/ ~(Range(cards) \subseteq Range(Hand(pid)))
                      \/ ~IsValidMeld(cards).valid) => ~r.ok
        /\ LET r == PassTurn(game, pid)
           IN  /\ ~r.ok => (r.g = game /\ r.msg # "")
               /\ GetCurrentPlayer(game) # pid => ~r.ok

\* C8 witness: a table on which the player to act owns a meld of the table's kind
\* that does not beat it, while another player is not to act: all four rejections
\* are on offer.
C8_AllRejectionsOnOffer ==
    /\ pc = Idle /\ game.state = "playing" /\ game.table_cards # <<>>
    /\ \E pid \in Players : \E cards \in Selections(game, pid) :
          PlayCards(game, pid, cards).msg = "Invalid play"
    /\ \E pid \in Players : \E cards \in Selections(game, pid) :
          PlayCards(game, pid, cards).msg = "Invalid meld"
    /\ \E pid \in Players : \E cards \in Selections(game, pid) :
          PlayCards(game, pid, cards).msg = "Card not found"
    /\ \E pid \in Players : PassTurn(game, pid).msg = "Not your turn"

\* C9: an accepted play_cards signals round_over exactly when at most one player
\* still holds cards once the played cards are removed, and then the turn is not
\* advanced.
C9_RoundOverIffOneHolderLeft ==
    \A pid \in Players : \A cards \in Selections(game, pid) :
        LET r == PlayCards(game, pid, cards)
            holders == {q \in Players :
                           IF q = pid THEN RemoveCards(Hand(pid), cards) # <<>>
                           ELSE HasCards(game.players[q])}
        IN  r.ok => /\ r.round_over <=> Cardinality(holders) <= 1
                    /\ r.round_over =>
                           r.g.current_player_idx = game.current_player_idx

\* C9 witness: a play has just ended the round, with one holder left.
C9_RoundJustEnded ==
    /\ last.op = "play" /\ last.ok /\ last.round_over
    /\ pc.at = "round_over"
    /\ Cardinality(WithCards(game)) = 1

Position(g, pid) == g.players[pid].finished_position

C10_PositionsWellFormed ==
    /\ {Position(game, p) : p \in Players} \ {NoPosition} = 1..game.finished_count
    /\ \A p, q \in Players :
          (Position(game, p) # NoPosition /\ Position(game, p) = Position(game, q))
              => p = q
    /\ \A p \in Players : Position(game, p) # NoPosition => ~HasCards(game.players[p])

C10_PositionsGrow ==
    \A p \in Players :
        /\ (Position(game, p) = NoPosition /\ Position(game', p) # NoPosition)
              => \A q \in Players : Position(game', p) > Position(game, q)
        /\ Position(game, p) # NoPosition
              => Position(game', p) \in {Position(game, p), NoPosition}

\* C10: in every state the finished positions are pairwise distinct and are exactly
\* 1..finished_count, only a player with an empty hand has one, and a player who
\* empties the hand later gets a larger position than everyone who did earlier.
C10_FinishOrder == [](C10_PositionsWellFormed) /\ [][C10_PositionsGrow]_vars

\* C10 witness: two players have finished, in positions 1 and 2.
C10_TwoFinished ==
    \E p, q \in Players : Position(game, p) = 1 /\ Position(game, q) = 2

\* C11: an accepted pass_turn clears the table if and only if, counting the passer
\* as passed, every card holder other than the player who played the meld on the
\* table has passed.  Stated for the passes that directly follow the play, by a
\* player other than the one who played: a person, or a computer player without a
\* valid play.
C11_PassClearsIffAllOthersPassed ==
    (/\ last.op = "play" /\ last.ok
     /\ NoRepeat(last.cards)
     /\ game.table_cards = last.cards)
        => \A pid \in Players \ {last.pid} :
              LET r == PassTurn(game, pid)
                  others == WithCards(game) \ {last.pid}
                  passes == \/ ~game.players[pid].is_cpu
                            \/ FirstPlays(Hand(pid), game.table_meld_type,
                                          game.table_cards) = {}
              IN  (passes /\ r.ok /\ ~r.round_over) =>
                      (r.g.table_cards = <<>>
                           <=> \A q \in others : q = pid \/ game.players[q].passed)

\* C12: in a 2-player game, when one player leads a single on the empty table, the
\* other beats it with a higher single and the first player then passes, the table
\* is empty, every passed flag is false and it is the second player's turn, who
\* may then lead any valid meld of the hand.
C12_LeadBeatPass ==
    (/\ Cardinality(Players) = 2
     /\ last.op = "play" /\ last.ok /\ ~last.round_over /\ ~last.show_2
     /\ last.table_before = <<>> /\ Len(last.cards) = 1
     /\ game.table_cards = last.cards)
        => \A second \in Players \ {last.pid} : \A i \in 1..Len(Hand(second)) :
              LET c == Hand(second)[i]
                  r1 == PlayCards(game, second, <<c>>)
                  r2 == PassTurn(r1.g, last.pid)
              IN  (c.rank > last.cards[1].rank /\ c.rank # TWO) =>
                    /\ GetCurrentPlayer(game) = second
                    /\ r1.ok
                    /\ ~r1.round_over =>
                         /\ GetCurrentPlayer(r1.g) = last.pid
                         /\ r2.ok /\ ~r2.round_over
                         /\ r2.g.table_cards = <<>>
                         /\ r2.g.table_meld_type = None
                         /\ \A q \in Players : ~r2.g.players[q].passed
                         /\ GetCurrentPlayer(r2.g) = second
                         /\ \A cards \in Selections(r2.g, second) :
                               (/\ Range(cards) \subseteq Range(r2.g.players[second].hand)
                                /\ NoRepeat(cards)
                                /\ IsValidMeld(cards).valid)
                                   => PlayCards(r2.g, second, cards).ok

\* C12 witness: in a 2-player game the first player has just passed on a higher
\* single of the second; the table is empty and the second player is to lead.
C12_PassedOnBeatenSingle ==
    /\ Cardinality(Players) = 2
    /\ last.op = "pass" /\ last.ok /\ last.pid = "p1"
    /\ Len(last.table_before) = 1 /\ last.table_before[1].rank = 14
    /\ game.table_cards = <<>>
    /\ GetCurrentPlayer(game) = "p2"
    /\ Len(Hand("p2")) = 2 /\ Len(Hand("p1")) = 2

\* the roles the claim gives the finish order of n players, first to last
RolesInFinishOrder(n) ==
    CASE n = 2 -> <<"President", "Asshole">>
      [] n = 3 -> <<"President", "Citizen", "Asshole">>
      [] n = 4 -> <<"President", "Vice President", "Vice Asshole", "Asshole">>

WithRole(g, role) == {p \in DOMAIN g.players : g.players[p].role = role}

OneOfEach(g) ==
    /\ Cardinality(WithRole(g, "President")) = 1
    /\ Cardinality(WithRole(g, "Asshole")) = 1
    /\ WithRole(g, "Vice President") # {} <=> Cardinality(DOMAIN g.players) = 4
    /\ WithRole(g, "Vice Asshole") # {} <=> Cardinality(DOMAIN g.players) = 4
    /\ Cardinality(WithRole(g, "Vice President")) <= 1
    /\ Cardinality(WithRole(g, "Vice Asshole")) <= 1

\* C13: when a round ends, _assign_roles gives the roles by finish order, the player
\* still holding cards last: President, Asshole with 2 players; President, Citizen,
\* Asshole with 3; President, Vice President, Vice Asshole, Asshole with 4; so
\* there is exactly one President and one Asshole, and the vice roles exist exactly
\* at tables of 4.  The roles are still so once the exchange phase has started.
C13_RolesByFinishOrder ==
    /\ pc.at = "round_over" =>
          LET g == AssignRoles(game)
              n == Cardinality(Players)
              place(p) == IF HasCards(game.players[p]) THEN n
                          ELSE Position(game, p)
          IN  /\ \A p \in Players : place(p) \in 1..n
              /\ \A p \in Players : g.players[p].role = RolesInFinishOrder(n)[place(p)]
              /\ OneOfEach(g)
    /\ last.op = "start_exchange_phase" => OneOfEach(game)

\* C13 witness: a round of four has ended with the second seat finishing first and
\* the first seat third.
C13_FourRanked ==
    /\ pc.at = "round_over"
    /\ Cardinality(Players) = 4
    /\ AssignRoles(game).players["p2"].role = "President"
    /\ AssignRoles(game).players["p1"].role = "Vice Asshole"

\* the 52 cards of the code's deck, and what they deal to 2, 3 and 4 seats
FullDeck ==
    [i \in 1..52 |-> Card(3 + ((i - 1) % 13), <<"S", "H", "D", "C">>[((i - 1) \div 13) + 1])]

FullDeals == [n \in 2..4 |-> DealHands(n, FullDeck)]

HandSizes(hands) == [k \in 1..Len(hands) |-> Len(hands[k])]

\* seat k (from 1) of n gets the cards k, k + n, k + 2n, ... of a deck of `cards`
RoundRobinShare(cards, n, k) == Cardinality({i \in 1..cards : (i - 1) % n = k - 1})

JustDealt ==
    \/ last.op = "start_round" /\ game.round_num = 1
    \/ last.op = "start_exchange_phase"

\* C14: every deal (round 1 and the redeal that starts an exchange) hands out the
\* whole deck round-robin over the seat order from seat 0, which for 52 cards is 13
\* each with 4 players, 18/17/17 with 3 and 26/26 with 2, and leaves the table
\* empty, finished_count 0 and every finished_position and passed flag cleared.
C14_DealsWholeDeckRoundRobin ==
    /\ HandSizes(FullDeals[4]) = <<13, 13, 13, 13>>
    /\ HandSizes(FullDeals[3]) = <<18, 17, 17>>
    /\ HandSizes(FullDeals[2]) = <<26, 26>>
    /\ \A n \in 2..4 :
          /\ UNION {Range(FullDeals[n][k]) : k \in 1..n} = Range(FullDeck)
          /\ Cardinality(Range(FullDeck)) = 52
    /\ JustDealt =>
          /\ \A c \in Deck : Occurrences(game, c) = 1
          /\ \A k \in 1..Len(game.player_order) :
                Len(Hand(game.player_order[k])) =
                    RoundRobinShare(Cardinality(Deck), Len(game.player_order), k)
          /\ Range(game.player_order) = Players
          /\ game.table_cards = <<>>
          /\ game.table_meld_type = None
          /\ game.finished_count = 0
          /\ \A p \in Players : Position(game, p) = NoPosition /\ ~game.players[p].passed

\* C14 witness: a table of four has been dealt again after a round that its last
\* seat won.
C14_RedealtToFour ==
    /\ last.op = "start_exchange_phase"
    /\ Cardinality(Players) = 4
    /\ game.players["p4"].role = "President"
    /\ HandSizes([k \in 1..4 |-> Hand(game.player_order[k])]) = <<2, 2, 1, 1>>

\* the place of a sub-state in the order of the exchange; 0 outside an exchange
StageOrder(e) ==
    CASE e = "WAITING_PRESIDENT" -> 1
      [] e = "WAITING_ASSHOLE" -> 2
      [] e = "WAITING_VP" -> 3
      [] e = "WAITING_VA" -> 4
      [] e = "COMPLETE" -> 5
      [] OTHER -> 0

ViceStage(g) == g.exchange_state_enum \in {"WAITING_VP", "WAITING_VA"}
BothVices(g) == GetVp(g) # None /\ GetVa(g) # None

\* one transition of the sub-state, from game a to game b, inside a phase
ForwardStage(a, b) ==
    /\ a.exchange_state_enum # b.exchange_state_enum =>
          /\ StageOrder(a.exchange_state_enum) >= 1
          /\ StageOrder(a.exchange_state_enum) < StageOrder(b.exchange_state_enum)
    /\ (ViceStage(b) /\ ~ViceStage(a)) => BothVices(b)
    /\ (a.state = "exchange" /\ b.state = "playing")
          <=> (a.exchange_state_enum # "COMPLETE" /\ b.exchange_state_enum = "COMPLETE")

C15_StagesWellFormed ==
    /\ game.state = "exchange" <=> StageOrder(game.exchange_state_enum) \in 1..4
    /\ game.exchange_state_enum = "COMPLETE" => game.state = "playing"
    /\ ViceStage(game) => BothVices(game)
    /\ pc.at = "exchange" =>
          LET t == DriverTrace(game, 0)
          IN  /\ t[Len(t)] = CompleteAllExchanges(game)
              /\ \A i \in 1..(Len(t) - 1) :
                    /\ t[i].exchange_state_enum # t[i + 1].exchange_state_enum
                    /\ ForwardStage(t[i], t[i + 1])

C15_StagesStep ==
    IF last'.op = "start_exchange_phase"
    THEN game'.exchange_state_enum = "WAITING_PRESIDENT" /\ game'.state = "exchange"
    ELSE IF last'.op = "start_round"
    THEN game.exchange_state_enum \in {None, "COMPLETE"}
         /\ game'.exchange_state_enum = None
    ELSE ForwardStage(game, game')

\* C15: within one exchange phase the sub-state starts at WAITING_PRESIDENT and only
\* moves forward through WAITING_ASSHOLE, WAITING_VP, WAITING_VA to COMPLETE, stages
\* skipped but none revisited; the vice stages are entered only when a Vice
\* President and a Vice Asshole both exist; and state becomes 'playing' exactly when
\* the sub-state becomes COMPLETE.
C15_StagesOnlyForward == [](C15_StagesWellFormed) /\ [][C15_StagesStep]_vars

\* C15 witness: the exchange of a table of four waits for the person, who is Vice
\* Asshole, after the three earlier stages.
C15_WaitingForViceAsshole ==
    /\ game.state = "exchange"
    /\ game.exchange_state_enum = "WAITING_VA"
    /\ pc = Idle
    /\ game.players["p1"].role = "Vice Asshole"

\* the submissions a person can make in the current state: on_submit_exchange with
\* up to MaxSel different codes
Submissions ==
    UNION {{[player |-> pid, cards |-> cards,
              r |-> HumanSubmitExchange(game, pid, cards)] :
                cards \in {x \in Selections(game, pid) : NoRepeat(x)}} :
           pid \in Humans(game)}

Counterpart(g, pid) ==
    CASE g.players[pid].role = "President" -> GetAsshole(g)
      [] g.players[pid].role = "Asshole" -> GetPresident(g)
      [] g.players[pid].role = "Vice President" -> GetVa(g)
      [] g.players[pid].role = "Vice Asshole" -> GetVp(g)
      [] OTHER -> None

\* the cards of `given` are in hand `to` and not in hand `from`
Moved(given, from, to) ==
    \A i \in 1..Len(given) : given[i] \in Range(to) /\ given[i] \notin Range(from)

\* from game g to game g2 the cards `given` of `player` went to `other`, the n
\* highest cards `other` held went to `player`, and both hands kept their size
SwappedFor(g, g2, player, other, given, n) ==
    LET mine == g2.players[player].hand
        theirs == g2.players[other].hand
    IN  /\ Moved(given, mine, theirs)
        /\ Moved(LastN(g.players[other].hand, n), theirs, mine)
        /\ Len(mine) = Len(g.players[player].hand)
        /\ Len(theirs) = Len(g.players[other].hand)

\* C16: in WAITING_PRESIDENT with a computer Asshole (and in WAITING_ASSHOLE with a
\* computer President), an accepted submission of two cards is a 2-for-2 swap: the
\* submitted cards end with the counterpart, the counterpart's two highest cards
\* with the submitter, both hand sizes are unchanged, and the sub-state is
\* WAITING_VP if both vice roles exist, otherwise COMPLETE.
C16_TwoForTwoSwap ==
    \A s \in Submissions :
        (/\ pc = Idle
         /\ s.r.ok
         /\ game.exchange_state_enum \in {"WAITING_PRESIDENT", "WAITING_ASSHOLE"}
         /\ game.players[Counterpart(game, s.player)].is_cpu)
            => /\ Len(s.cards) = 2
               /\ SwappedFor(game, s.r.g, s.player, Counterpart(game, s.player),
                             s.cards, 2)
               /\ s.r.g.exchange_state_enum =
                      IF BothVices(game) THEN "WAITING_VP" ELSE "COMPLETE"

\* C17: in WAITING_VP with a computer Vice Asshole (and in WAITING_VA with a computer
\* Vice President) an accepted one-card submission is a 1-for-1 swap: the submitted
\* card ends in the counterpart's hand, the counterpart's highest card in the
\* submitter's, both hand sizes are unchanged, the sub-state becomes COMPLETE and
\* state 'playing'.  This holds for a person's submission and for the one the
\* driver makes for a computer player.
C17_OneForOneSwap ==
    /\ \A s \in Submissions :
          (/\ pc = Idle
           /\ s.r.ok
           /\ ViceStage(game)
           /\ game.players[Counterpart(game, s.player)].is_cpu)
              => /\ Len(s.cards) = 1
                 /\ SwappedFor(game, s.r.g, s.player, Counterpart(game, s.player),
                               s.cards, 1)
                 /\ s.r.g.exchange_state_enum = "COMPLETE"
                 /\ s.r.g.state = "playing"
    /\ pc.at = "exchange" =>
          LET t == DriverTrace(game, 0)
          IN  \A i \in 1..(Len(t) - 1) :
                 LET player == GetPlayerForCurrentExchange(t[i])
                     other == Counterpart(t[i], player)
                 IN  (ViceStage(t[i]) /\ t[i].players[other].is_cpu)
                        => /\ SwappedFor(t[i], t[i + 1], player, other,
                                         LastN(t[i].players[player].hand, 1), 1)
                           /\ t[i + 1].exchange_state_enum = "COMPLETE"
                           /\ t[i + 1].state = "playing"

\* C17 witness: at a table of four the person, Vice President, has just given one
\* card to the computer Vice Asshole and holds that player's highest card.
C17_ViceSwapDone ==
    /\ last.op = "submit_exchange" /\ last.ok
    /\ Len(last.cards) = 1
    /\ game.players[last.pid].role = "Vice President"
    /\ game.exchange_state_enum = "COMPLETE"
    /\ last.cards[1] \in Range(Hand(GetVa(game)))
    /\ Len(Hand(last.pid)) = 2
    /\ \E c \in Range(Hand(last.pid)) : c.rank > last.cards[1].rank

\* C18: every accepted exchange submission, also when the counterpart is a person,
\* takes the submitted cards from the submitter's hand into the counterpart's and
\* moves the counterpart's highest N cards (2 for President and Asshole, 1 for the
\* vices) to the submitter.  Stated for the submissions the driver makes for a
\* computer player whose counterpart is a person.
C18_SwapWithPerson ==
    pc.at = "exchange" =>
        LET t == DriverTrace(game, 0)
        IN  \A i \in 1..(Len(t) - 1) :
               LET player == GetPlayerForCurrentExchange(t[i])
                   other == Counterpart(t[i], player)
                   n == RequiredCount(t[i].exchange_state_enum)
               IN  ~t[i].players[other].is_cpu
                      => SwappedFor(t[i], t[i + 1], player, other,
                                    LastN(t[i].players[player].hand, n), n)

\* C19: human_submit_exchange is rejected, with every hand, the sub-state and the
\* state unchanged, whenever the state is not 'exchange', the submitter does not
\* hold the role designated to act in the sub-state, a code is not in the
\* submitter's hand, or the number of cards is not 2 (President and Asshole
\* stages) or 1 (vice stages).
C19_BadSubmissionRejected ==
    \A pid \in Players : \A cards \in Selections(game, pid) :
        LET r == HumanSubmitExchange(game, pid, cards)
            e == game.exchange_state_enum
            designated ==
                CASE e = "WAITING_PRESIDENT" -> "President"
                  [] e = "WAITING_ASSHOLE" -> "Asshole"
                  [] e = "WAITING_VP" -> "Vice President"
                  [] e = "WAITING_VA" -> "Vice Asshole"
                  [] OTHER -> None
            count == IF e \in {"WAITING_PRESIDENT", "WAITING_ASSHOLE"} THEN 2 ELSE 1
            bad == \/ game.state # "exchange"
                   \/ game.players[pid].role # designated
                   \/ ~(Range(cards) \subseteq Range(Hand(pid)))
                   \/ Len(cards) # count
        IN  /\ bad => ~r.ok
            /\ ~r.ok => (r.g = game /\ r.msg # "")

\* C19 witness: the exchange of a table of four waits for the person in a vice
\* stage, and a submission of the wrong size, one with a foreign code and one by
\* another player are all on offer.
C19_RejectionsOnOffer ==
    /\ pc = Idle
    /\ game.state = "exchange"
    /\ ViceStage(game)
    /\ \E pid \in Players : \E cards \in Selections(game, pid) :
          HumanSubmitExchange(game, pid, cards).msg = "Wrong card count"
    /\ \E pid \in Players : \E cards \in Selections(game, pid) :
          HumanSubmitExchange(game, pid, cards).msg = "Card not found"
    /\ \E pid \in Players : \E cards \in Selections(game, pid) :
          HumanSubmitExchange(game, pid, cards).msg = "Not your turn"

\* the players who hold a role that acts in an exchange
Actors(g) == {GetPresident(g), GetAsshole(g), GetVp(g), GetVa(g)} \ {None}

\* C20: complete_all_exchanges returns before its bound of 20 iterations; when it
\* returns, either the sub-state is COMPLETE with state 'playing' or the player
\* designated to act is a person; it submits only for computer players and leaves
\* every person's turn to act alone; and when every acting role is held by a
\* computer player it reaches COMPLETE.
C20_DriverStopsForPeople ==
    pc.at = "exchange" =>
        LET t == DriverTrace(game, 0)
            end == CompleteAllExchanges(game)
            who == GetPlayerForCurrentExchange(end)
        IN  /\ end = t[Len(t)]
            /\ Len(t) - 1 < ExchangeIterations
            /\ \/ end.exchange_state_enum = "COMPLETE" /\ end.state = "playing"
               \/ who # None /\ ~end.players[who].is_cpu
            /\ \A i \in 1..(Len(t) - 1) :
                  /\ t[i].players[GetPlayerForCurrentExchange(t[i])].is_cpu
                  /\ t[i + 1] # t[i]
            /\ (\A p \in Actors(game) : game.players[p].is_cpu)
                  => end.exchange_state_enum = "COMPLETE"

\* C20 witness: at a table of four the driver has made the submissions of
\* President, Asshole and Vice President and stopped for the person, who is Vice
\* Asshole.
C20_StoppedAtLastStage ==
    /\ last.op = "complete_all_exchanges"
    /\ pc.at = "resume" /\ pc.handler # "submit"
    /\ game.exchange_state_enum = "WAITING_VA"
    /\ game.state = "exchange"
    /\ ~game.players[GetVa(game)].is_cpu

\* the table of C21 and its exchange: four seats, the person is Asshole and the
\* three other acting roles are held by computer players
HumanAssholeOfFour(g) ==
    /\ Cardinality(DOMAIN g.players) = 4
    /\ g.state = "exchange"
    /\ GetAsshole(g) # None
    /\ ~g.players[GetAsshole(g)].is_cpu
    /\ \A p \in Actors(g) \ {GetAsshole(g)} : g.players[p].is_cpu

\* every card list on_submit_exchange may carry for pid, repeats included
AnySubmissions(g) ==
    UNION {{[player |-> pid, cards |-> cards,
              r |-> HumanSubmitExchange(g, pid, cards)] :
                cards \in Selections(g, pid)} : pid \in Humans(g)}

C21_HaltsAndResolves ==
    HumanAssholeOfFour(game) =>
        \* the driver called after start_exchange_phase stops at WAITING_ASSHOLE
        /\ (pc.at = "exchange" /\ game.exchange_state_enum = "WAITING_PRESIDENT") =>
              LET end == CompleteAllExchanges(game)
              IN  end.exchange_state_enum = "WAITING_ASSHOLE" /\ end.state = "exchange"
        /\ (pc = Idle /\ game.exchange_state_enum = "WAITING_ASSHOLE") =>
              \A s \in AnySubmissions(game) :
                  \* accepted are the Asshole's two cards, and nothing else
                  /\ s.r.ok <=> /\ s.player = GetAsshole(game)
                                /\ Len(s.cards) = 2
                                /\ \A i \in 1..2 : s.cards[i] \in Range(Hand(s.player))
                  \* a rejected submission leaves the game where it is
                  /\ ~s.r.ok => s.r.g = game
                  \* the accepted one is followed by the driver, which makes the
                  \* submissions of the vice stage
                  /\ s.r.ok =>
                        LET end == CompleteAllExchanges(s.r.g)
                        IN  /\ s.r.g.exchange_state_enum = "WAITING_VP"
                            /\ end.exchange_state_enum = "COMPLETE"
                            /\ end.state = "playing"
        /\ (pc.handler = "submit" /\ pc.at = "resume") =>
              game.exchange_state_enum = "COMPLETE"

C21_LeavesByTwoCards ==
    (HumanAssholeOfFour(game) /\ game.exchange_state_enum = "WAITING_ASSHOLE"
        /\ game'.exchange_state_enum # "WAITING_ASSHOLE") =>
            /\ last'.op = "submit_exchange"
            /\ last'.pid = GetAsshole(game)
            /\ Len(last'.cards) = 2
            /\ game'.exchange_state_enum = "WAITING_VP"

\* C21: at a table of four whose round ended with the person as Asshole and computer
\* players as President, Vice President and Vice Asshole, the exchange stops at
\* WAITING_ASSHOLE; every rejected submission leaves it there; it is left only by
\* the Asshole's submission of exactly two cards, after which the driver resolves
\* the vice stage and the game is at COMPLETE with state 'playing'.
C21_HumanAssholeEndToEnd == [](C21_HaltsAndResolves) /\ [][C21_LeavesByTwoCards]_vars

\* C21 witness: the person was Asshole at a table of four, the submission of two
\* cards was accepted, and the driver has completed the exchange.
C21_AssholeSubmittedTwo ==
    /\ Cardinality(Players) = 4
    /\ pc = [handler |-> "submit", at |-> "resume"]
    /\ game.players["p1"].role = "Asshole"
    /\ game.exchange_state_enum = "COMPLETE"
    /\ game.state = "playing"

\* the exchange waits for a person: the player designated to act is no computer
WaitsForPerson(g) ==
    /\ g.state = "exchange"
    /\ GetPlayerForCurrentExchange(g) # None
    /\ ~g.players[GetPlayerForCurrentExchange(g)].is_cpu

\* a completed exchange is met only inside the handler that completed it, which has
\* the driver's return and the round start ahead; a handler that resumes without
\* COMPLETE waits for a person
C22_CompletedIsResumed ==
    /\ game.exchange_state_enum = "COMPLETE" =>
          /\ pc.at \in {"exchange", "resume"}
          /\ game.state = "playing"
          /\ CompleteAllExchanges(game) = game
    /\ (pc.at = "resume" /\ game.exchange_state_enum # "COMPLETE") => WaitsForPerson(game)

C22_RoundStartStep ==
    IF game.exchange_state_enum = "COMPLETE" /\ pc.at = "resume"
    THEN /\ last'.op = "start_round"
         /\ game'.round_num = game.round_num + 1
         /\ game'.player_order = game.original_player_order
         /\ game'.original_player_order = game.original_player_order
         /\ DOMAIN game'.players = DOMAIN game.players
         /\ \A pid \in DOMAIN game.players :
               /\ game'.players[pid].role = game.players[pid].role
               /\ game'.players[pid].hand = game.players[pid].hand
               /\ game'.players[pid].finished_position = NoPosition
               /\ ~game'.players[pid].passed
         /\ game'.finished_count = 0
         /\ game'.table_cards = <<>>
         /\ game'.table_meld_type = None
         /\ game'.state = "playing"
         /\ game'.exchange_state_enum = None
    ELSE /\ game.round_num > 0 => game'.round_num = game.round_num
         /\ last'.op = "start_round" => pc.handler = "create"

\* C22: a completed exchange is followed by one round start, which adds 1 to
\* round_num, sets player_order to original_player_order, keeps every role, every
\* hand and original_player_order, and clears finished positions, pass flags and the
\* table; while the exchange waits for a person no round is started.
C22_OneRoundStartAfterExchange == [](C22_CompletedIsResumed) /\ [][C22_RoundStartStep]_vars

\* C22 witness: the second round has been started after an exchange, with the roles
\* of the first round kept.
C22_SecondRoundStarted ==
    /\ last.op = "start_round"
    /\ pc = Idle
    /\ game.round_num = 2
    /\ game.state = "playing"
    /\ game.players["p1"].role = "Vice President"
    /\ game.player_order = game.original_player_order

\* list[list.index(old)] = new
ReplaceFirst(order, old, new) ==
    LET pos == CHOOSE i \in 1..Len(order) :
                   order[i] = old /\ \A j \in 1..(i - 1) : order[j] # old
    IN  [order EXCEPT ![pos] = new]

\* Game.rejoin_player. players[new] = old_player keeps the place of a key the dict
\* already has and appends a new one; del players[old] then removes the old key,
\* which is the same entry when new_player_id = old_player_id.
RejoinPlayer(g, old_player_id, new_player_id) ==
    IF \/ old_player_id \notin DOMAIN g.players
       \/ old_player_id \notin Range(g.original_player_order)
    THEN [g |-> g, ok |-> FALSE]
    ELSE LET old_player == [g.players[old_player_id] EXCEPT !.is_cpu = FALSE]
             assigned == IF new_player_id \in Range(g.player_keys)
                         THEN g.player_keys
                         ELSE Append(g.player_keys, new_player_id)
             keys == SelectSeq(assigned, LAMBDA k : k # old_player_id)
             players == [pid \in Range(keys) |->
                            IF pid = new_player_id THEN old_player ELSE g.players[pid]]
         IN  [g |-> [g EXCEPT
                       !.players = players,
                       !.player_keys = keys,
                       !.original_player_order =
                           ReplaceFirst(@, old_player_id, new_player_id),
                       !.player_order =
                           IF old_player_id \in Range(@)
                           THEN ReplaceFirst(@, old_player_id, new_player_id) ELSE @],
              ok |-> TRUE]

(* ------------------------------------------------------------- card strings *)
\* A string is the sequence of its characters; the suit symbols of Suit are written
\* s, h, d, c here.
RankDisplays ==
    [r \in 3..15 |->
        CASE r = 3 -> <<"3">> [] r = 4 -> <<"4">> [] r = 5 -> <<"5">>
          [] r = 6 -> <<"6">> [] r = 7 -> <<"7">> [] r = 8 -> <<"8">>
          [] r = 9 -> <<"9">> [] r = 10 -> <<"1", "0">> [] r = 11 -> <<"J">>
          [] r = 12 -> <<"Q">> [] r = 13 -> <<"K">> [] r = 14 -> <<"A">>
          [] r = 15 -> <<"2">>]

SuitSymbols == [S |-> "s", H |-> "h", D |-> "d", C |-> "c"]

\* Card.display = f"{rank.value[1]}{suit.value}", returned by __repr__
Display(c) == RankDisplays[c.rank] \o <<SuitSymbols[c.suit]>>

KeyError == [raised |-> "KeyError"]

\* a plausible slip: the rank is read from the first character only
FromStrFirstChar(card_str) ==
    LET suit_char == card_str[Len(card_str)]
        rank_str == <<card_str[1]>>
        rank_map == {r \in DOMAIN RankDisplays : RankDisplays[r] = rank_str}
        suit_map == {s \in DOMAIN SuitSymbols : SuitSymbols[s] = suit_char}
    IN  IF rank_map = {} \/ suit_map = {} THEN KeyError
        ELSE Card(CHOOSE r \in rank_map : TRUE, CHOOSE s \in suit_map : TRUE)

\* Card.from_str: suit_char = card_str[-1], rank_str = card_str[:-1], and the two
\* dictionary lookups, which raise KeyError for a string that is no key
FromStr(card_str) ==
    LET suit_char == card_str[Len(card_str)]
        rank_str == SubSeq(card_str, 1, Len(card_str) - 1)
        rank_map == {r \in DOMAIN RankDisplays : RankDisplays[r] = rank_str}
        suit_map == {s \in DOMAIN SuitSymbols : SuitSymbols[s] = suit_char}
    IN  IF rank_map = {} \/ suit_map = {} THEN KeyError
        ELSE Card(CHOOSE r \in rank_map : TRUE, CHOOSE s \in suit_map : TRUE)

\* The calls of the card conversions, one at a time, on a table nobody sits at:
\* `last` is the call and what it returned.
NoTable == NewGame(<<>>, {})

InitCalls ==
    /\ game = NoTable
    /\ pc = Idle
    /\ show2_wait = FALSE
    /\ cpu_wait = None
    /\ last = NoOutcome

\* str(card) for a card of the deck
CallStr(c) ==
    /\ last' = [op |-> "str", card |-> c, display |-> Display(c)]
    /\ UNCHANGED <<game, pc, show2_wait, cpu_wait>>

\* Card.from_str on the string the last call returned
CallFromStr ==
    /\ last.op = "str"
    /\ last' = [op |-> "from_str", card |-> last.card, display |-> last.display,
                parsed |-> FromStr(last.display)]
    /\ UNCHANGED <<game, pc, show2_wait, cpu_wait>>

NextCard ==
    \/ \E i \in DOMAIN FullDeck : CallStr(FullDeck[i])
    \/ CallFromStr

SpecCard == InitCalls /\ [][NextCard]_vars

\* C24: for each of the 52 cards, Card.from_str of the card's string (the rank's
\* display followed by the suit symbol, "10" being two characters) is a card of the
\* same rank and suit; different cards have different strings.
C24_CardStringRoundTrip ==
    /\ last.op = "str" =>
          /\ Len(last.display) = IF last.card.rank = 10 THEN 3 ELSE 2
          /\ \A i \in DOMAIN FullDeck :
                Display(FullDeck[i]) = last.display => FullDeck[i] = last.card
    /\ last.op = "from_str" =>
          /\ last.parsed # KeyError
          /\ last.parsed.rank = last.card.rank
          /\ last.parsed.suit = last.card.suit

\* C24 witness: the string of the ten of spades, three characters, has been parsed
C24_TenParsed ==
    /\ last.op = "from_str"
    /\ last.display = <<"1", "0", "s">>
    /\ last.card = Card(10, "S")

\* the connection ids on_create may pass to rejoin_player: the ids of the table, one
\* id of a new connection, and one id nobody at the table ever had
NewConnection == "p5"
Stranger == "p0"

\* what rejoin_player(old, new) is to do for a registered seat, from game g to g2
SeatRemapped(g, g2, old, new) ==
    /\ g2.player_order = [i \in DOMAIN g.player_order |->
                             IF g.player_order[i] = old THEN new ELSE g.player_order[i]]
    /\ g2.original_player_order =
          [i \in DOMAIN g.original_player_order |->
              IF g.original_player_order[i] = old THEN new
              ELSE g.original_player_order[i]]
    /\ DOMAIN g2.players = (DOMAIN g.players \ {old}) \cup {new}
    /\ new \in DOMAIN g2.players
    /\ g2.players[new].hand = g.players[old].hand
    /\ g2.players[new].role = g.players[old].role
    /\ \A pid \in DOMAIN g.players \ {old} :
          pid \in DOMAIN g2.players /\ g2.players[pid] = g.players[pid]
    /\ g2.table_cards = g.table_cards
    /\ g2.table_meld_type = g.table_meld_type
    /\ g2.current_player_idx = g.current_player_idx
    /\ g2.state = g.state

\* C23: rejoin_player(old, new) for a registered seat puts new where old was in
\* player_order and original_player_order and as the key in players, and leaves the
\* player's hand and role, every other player, the table, current_player_idx and
\* state as they were; for an id that is not registered it returns False and changes
\* nothing.
C23_RejoinRemapsSeat ==
    pc = Idle =>
        \A old \in DOMAIN game.players \cup {Stranger} :
            \A new \in DOMAIN game.players \cup {NewConnection} :
                LET r == RejoinPlayer(game, old, new)
                IN  IF old \in DOMAIN game.players
                    THEN r.ok /\ SeatRemapped(game, r.g, old, new)
                    ELSE ~r.ok /\ r.g = game

(* ------------------------------------------------------------ persistence *)
\* Game.get_exchange_state_str
GetExchangeStateStr(g) ==
    CASE g.exchange_state_enum = "WAITING_PRESIDENT" -> "waiting_president"
      [] g.exchange_state_enum = "WAITING_ASSHOLE" -> "waiting_asshole"
      [] g.exchange_state_enum = "WAITING_VP" -> "waiting_vp"
      [] g.exchange_state_enum = "WAITING_VA" -> "waiting_va"
      [] g.exchange_state_enum = "COMPLETE" -> "complete"
      [] OTHER -> None

\* Game.to_dict: the players in dict order, every card as its string
ToDict(g) ==
    [players |-> [i \in DOMAIN g.player_keys |->
                    LET p == g.players[g.player_keys[i]]
                    IN  [player_id |-> g.player_keys[i],
                         is_cpu |-> p.is_cpu,
                         hand |-> [k \in DOMAIN p.hand |-> Display(p.hand[k])],
                         role |-> p.role,
                         finished_position |-> p.finished_position,
                         passed |-> p.passed]],
     player_order |-> g.player_order,
     original_player_order |-> g.original_player_order,
     current_player_idx |-> g.current_player_idx,
     lead_player_idx |-> g.lead_player_idx,
     table_cards |-> [k \in DOMAIN g.table_cards |-> Display(g.table_cards[k])],
     table_meld_type |-> g.table_meld_type,
     finished_count |-> g.finished_count,
     state |-> g.state,
     round_num |-> g.round_num,
     exchange_state |-> GetExchangeStateStr(g)]

\* Game.cleanup_player_order
CleanupPlayerOrder(g) ==
    LET before == g.player_order
        upto == IF g.current_player_idx < Len(before)
                THEN g.current_player_idx ELSE Len(before)
        removed_count == Cardinality({i \in 1..upto : before[i] \notin DOMAIN g.players})
        idx == g.current_player_idx - removed_count
    IN  [g EXCEPT !.player_order = SelectSeq(before, LAMBDA pid : pid \in DOMAIN g.players),
                  !.current_player_idx =
                      IF removed_count > 0 THEN (IF idx > 0 THEN idx ELSE 0) ELSE @]

\* Game.from_dict: a new Game, the players and cards parsed back, and
\* exchange_state_enum = None whatever data['exchange_state'] holds
FromDict(data) ==
    LET keys == [i \in DOMAIN data.players |-> data.players[i].player_id]
        entry(pid) == data.players[CHOOSE i \in DOMAIN data.players :
                          /\ data.players[i].player_id = pid
                          /\ \A j \in DOMAIN data.players :
                                data.players[j].player_id = pid => j <= i]
        players == [pid \in Range(keys) |->
                       LET pdata == entry(pid)
                       IN  [is_cpu |-> pdata.is_cpu,
                            hand |-> [k \in DOMAIN pdata.hand |-> FromStr(pdata.hand[k])],
                            role |-> pdata.role,
                            finished_position |-> pdata.finished_position,
                            passed |-> pdata.passed]]
        g1 == [NewGame(keys, {}) EXCEPT
                  !.players = players,
                  !.player_order = data.player_order,
                  !.original_player_order = data.original_player_order,
                  !.current_player_idx = data.current_player_idx]
        g2 == CleanupPlayerOrder(g1)
    IN  [g2 EXCEPT !.lead_player_idx = data.lead_player_idx,
                   !.table_cards = [k \in DOMAIN data.table_cards |->
                                       FromStr(data.table_cards[k])],
                   !.table_meld_type = data.table_meld_type,
                   !.finished_count = data.finished_count,
                   !.state = data.state,
                   !.round_num = data.round_num,
                   !.exchange_state_enum = None,
                   !.cpu_playing = FALSE,
                   !.showing_2 = FALSE]

(* ------------------------------------------------------- calls of the melds *)
MaxMeld == 6         \* longest card list is_valid_meld is called with
MaxPlay == 5         \* is_valid_meld: "Too many cards (max 5)"

\* the ranks of the cards the meld functions are called with: 3 and 4 below, and
\* J, Q, K, A, 2 on top
MeldRanks == {3, 4} \cup (11..15)

SuitOrder == <<"S", "H", "D", "C">>

\* the next card of rank r for a list: the k-th card of a rank is of the k-th suit,
\* and a fifth one is the first card again (a code sent twice)
CardOfRank(cards, r) ==
    Card(r, SuitOrder[(Cardinality({i \in DOMAIN cards : cards[i].rank = r}) % 4) + 1])

\* the card keeps the list a rank-sorted list of different cards
KeepsSorted(cards, r) ==
    /\ Len(cards) < MaxPlay
    /\ cards # <<>> => Last(cards).rank <= r
    /\ Cardinality({i \in DOMAIN cards : cards[i].rank = r}) < 4

\* The calls of is_valid_meld: on the empty list first, then on the last list with
\* one more card, in every order of the ranks.
InitClassify ==
    /\ game = NoTable
    /\ pc = Idle
    /\ show2_wait = FALSE
    /\ cpu_wait = None
    /\ last = [op |-> "is_valid_meld", cards |-> <<>>, result |-> IsValidMeld(<<>>)]

\* is_valid_meld(cards)
CallIsValidMeld(cards) ==
    /\ last' = [op |-> "is_valid_meld", cards |-> cards, result |-> IsValidMeld(cards)]
    /\ UNCHANGED <<game, pc, show2_wait, cpu_wait>>

NextClassify ==
    \E r \in MeldRanks :
        /\ Len(last.cards) < MaxMeld
        /\ CallIsValidMeld(Append(last.cards, CardOfRank(last.cards, r)))

SpecClassify == InitClassify /\ [][NextClassify]_vars

\* The calls of compare_melds: on two empty lists first, then with one more card in
\* the played list or in the list on the table.
InitCompare ==
    /\ game = NoTable
    /\ pc = Idle
    /\ show2_wait = FALSE
    /\ cpu_wait = None
    /\ last = [op |-> "compare_melds", played_meld |-> <<>>, table_meld |-> <<>>,
               result |-> CompareMelds(<<>>, <<>>)]

\* compare_melds(played_meld, table_meld)
CallCompareMelds(played_meld, table_meld) ==
    /\ last' = [op |-> "compare_melds", played_meld |-> played_meld,
                table_meld |-> table_meld,
                result |-> CompareMelds(played_meld, table_meld)]
    /\ UNCHANGED <<game, pc, show2_wait, cpu_wait>>

NextCompare ==
    \/ \E r \in MeldRanks :
          /\ KeepsSorted(last.played_meld, r)
          /\ CallCompareMelds(Append(last.played_meld, CardOfRank(last.played_meld, r)),
                              last.table_meld)
    \/ \E r \in MeldRanks :
          /\ KeepsSorted(last.table_meld, r)
          /\ CallCompareMelds(last.played_meld,
                              Append(last.table_meld, CardOfRank(last.table_meld, r)))

SpecCompare == InitCompare /\ [][NextCompare]_vars

RanksOf(cards) == {cards[i].rank : i \in DOMAIN cards}

\* the kind the spec gives to n cards with the set of ranks rs (the ranks are
\* consecutive and all different when there are n of them spanning n values)
Classify(n, rs) ==
    IF n = 0 \/ n > 5 THEN None
    ELSE IF n = 1 THEN "SINGLE"
    ELSE IF Cardinality(rs) = 1
         THEN CASE n = 2 -> "PAIR" [] n = 3 -> "TRIPLE" [] n = 4 -> "QUAD" [] OTHER -> None
    ELSE IF n >= 3 /\ Cardinality(rs) = n
            /\ (\A r \in rs : \A q \in rs : r - q < n)
         THEN RunName(n)
    ELSE None

\* C25: is_valid_meld of 0 to 6 cards is invalid for no card and for more than 5,
\* SINGLE for one card, PAIR, TRIPLE, QUAD for 2, 3, 4 cards of one rank, invalid
\* for 5 cards of one rank, RUN(n) for n >= 3 cards whose sorted rank values (3..15,
\* the 2 being 15) are consecutive, invalid otherwise; the result depends on the
\* cards only, not on their order.
C25_ClassifyAsSpecified ==
    last.op = "is_valid_meld" =>
        LET kind == Classify(Len(last.cards), RanksOf(last.cards))
        IN  /\ last.result.valid <=> kind # None
            /\ last.result.valid => last.result.mtype = kind
            /\ GetMeldType(last.cards) = kind

\* C25 witness: five cards given out of order were classified as a run of five
C25_UnsortedRunOfFive ==
    /\ last.op = "is_valid_meld"
    /\ last.result = [valid |-> TRUE, mtype |-> "RUN(5)"]
    /\ last.cards[1].rank = 15
    /\ last.cards[5].rank = 13

\* the value a meld is compared by: the least rank of a run, the rank otherwise
MeldValue(cards) == MinRank(cards)

\* C26: compare_melds reports a win exactly when both melds are valid, of the same
\* kind (runs of the same length) and the played value is strictly greater than the
\* table's, a run's value being its least rank; so no meld beats itself and no two
\* melds beat each other.
C26_CompareAsSpecified ==
    last.op = "compare_melds" =>
        LET played == last.played_meld
            table == last.table_meld
            pkind == Classify(Len(played), RanksOf(played))
            tkind == Classify(Len(table), RanksOf(table))
        IN  /\ last.result <=> /\ pkind # None
                               /\ tkind # None
                               /\ pkind = tkind
                               /\ Len(played) = Len(table)
                               /\ MeldValue(played) > MeldValue(table)
            /\ played = table => ~last.result
            /\ ~(last.result /\ CompareMelds(table, played))

\* C26 witness: the run Q K A was played over the run J Q K and wins
C26_RunOverRun ==
    /\ last.op = "compare_melds"
    /\ last.result
    /\ RanksOf(last.played_meld) = {12, 13, 14}
    /\ RanksOf(last.table_meld) = {11, 12, 13}

(* ------------------------------------------------- calls of get_valid_plays *)
MaxHand == 6         \* largest hand get_valid_plays is called with

\* the melds on the table: the cards of a rank are taken from the last suit down,
\* those of a hand from the first suit up
TableMelds ==
    {[k \in 1..n |-> Card(r, SuitOrder[5 - k])] : r \in MeldRanks, n \in 1..4}
    \cup {m \in {[k \in 1..n |-> Card(r + k - 1, "C")] :
                    r \in MeldRanks, n \in 3..MaxPlay} :
             \A k \in DOMAIN m : m[k].rank \in MeldRanks}

\* a table of two in the playing phase: the computer player p2 holds `hand` and is
\* to act on `table_cards`, played by p1
CpuToAct(hand, table_cards) ==
    [StartRound(NewGame(<<"p1", "p2">>, {"p2"}), FALSE, <<<<Card(5, "S")>>, hand>>)
        EXCEPT !.current_player_idx = 1,
               !.table_cards = table_cards,
               !.table_meld_type = GetMeldType(table_cards)]

CallGetValidPlays(g) ==
    /\ game' = g
    /\ last' = [op |-> "get_valid_plays",
                plays |-> GetValidPlays(g.players["p2"].hand, g.table_meld_type,
                                        g.table_cards)]
    /\ UNCHANGED <<pc, show2_wait, cpu_wait>>

\* the first call: one card in hand, any meld or nothing on the table
InitCpu ==
    /\ \E table_cards \in TableMelds \cup {<<>>} : \E r \in MeldRanks :
          LET g == CpuToAct(<<Card(r, "S")>>, table_cards)
          IN  /\ game = g
              /\ last = [op |-> "get_valid_plays",
                         plays |-> GetValidPlays(g.players["p2"].hand,
                                                 g.table_meld_type, g.table_cards)]
    /\ pc = Idle
    /\ show2_wait = FALSE
    /\ cpu_wait = None

\* the next call: the same table, the hand with one more card that is not on it
NextCpu ==
    \E r \in MeldRanks :
        LET hand == game.players["p2"].hand
            held == Cardinality({i \in DOMAIN hand : hand[i].rank = r})
            shown == Cardinality({i \in DOMAIN game.table_cards :
                                     game.table_cards[i].rank = r})
        IN  /\ Len(hand) < MaxHand
            /\ Last(hand).rank <= r
            /\ held + shown < 4
            /\ CallGetValidPlays(CpuToAct(Append(hand, CardOfRank(hand, r)),
                                          game.table_cards))

SpecCpu == InitCpu /\ [][NextCpu]_vars

\* C27: every play get_valid_plays lists for the hand of the player to act and the
\* table is made of different cards of that hand and is accepted by play_cards for
\* that player; over a meld on the table it has the table's kind (runs the table's
\* length) and a strictly higher rank or least rank, on an empty table it is a valid
\* meld.
C27_CandidatesAreAccepted ==
    last.op = "get_valid_plays" =>
        \A play \in last.plays :
            /\ Range(play) \subseteq Range(game.players["p2"].hand)
            /\ NoRepeat(play)
            /\ PlayCards(game, "p2", play).ok
            /\ IF game.table_cards = <<>>
               THEN IsValidMeld(play).valid
               ELSE SameKindHigher(play, game.table_cards)

\* C27 witness: a run of four is listed over a run of four on the table
C27_RunOfFourListed ==
    /\ last.op = "get_valid_plays"
    /\ game.table_meld_type = "RUN(4)"
    /\ \E play \in last.plays : Len(play) = 4

\* the lists of cards of a hand, in hand order, that play_cards accepts
Accepted(g, pid) ==
    LET hand == g.players[pid].hand
    IN  {play \in {SelectSeq(hand, LAMBDA c : c \in chosen) :
                      chosen \in SUBSET Range(hand)} :
            play # <<>> /\ PlayCards(g, pid, play).ok}

\* C28: get_valid_plays lists all legal plays: when it lists nothing, play_cards
\* accepts no selection of cards of the hand on that table, and every run of 3 to 5
\* cards that can be formed from the hand on an empty table is listed.
C28_GeneratorComplete ==
    last.op = "get_valid_plays" =>
        /\ last.plays = {} => Accepted(game, "p2") = {}
        /\ game.table_cards = <<>> =>
              \A play \in Accepted(game, "p2") :
                  IsRunType(GetMeldType(play)) =>
                      \E listed \in last.plays : RanksOf(listed) = RanksOf(play)

\* no handler is running or suspended
Quiet == pc = Idle /\ ~show2_wait /\ cpu_wait = None

\* C29: in state 'playing', whenever at least two players hold cards, the player at
\* current_player_idx holds at least one card.
C29_CurrentPlayerHoldsCards ==
    (Quiet /\ game.state = "playing" /\ Cardinality(WithCards(game)) >= 2) =>
        /\ GetCurrentPlayer(game) # None
        /\ HasCards(game.players[GetCurrentPlayer(game)])

\* C30: in state 'playing' with at least two players holding cards and a computer
\* player to act, on_cpu_play applies a play or a pass for that player (so that,
\* the cpu_play events being served, the turn reaches another player or the round
\* ends).
C30_CpuTurnMoves ==
    (Quiet /\ game.state = "playing" /\ Cardinality(WithCards(game)) >= 2
        /\ GetCurrentPlayer(game) # None
        /\ game.players[GetCurrentPlayer(game)].is_cpu) =>
            LET current == GetCurrentPlayer(game)
            IN  \* on_cpu_play does not return before its move
                /\ ~game.cpu_playing
                /\ HasCards(game.players[current])
                \* and the engine accepts the move it makes
                /\ \A m \in CpuMoves(game, current) : m.r.ok /\ m.r.g # game

\* C31: table_meld_type is None when table_cards is empty and otherwise the kind
\* is_valid_meld gives to table_cards; in particular it is SINGLE only when one card
\* is on the table.
C31_TableKindIsClassify ==
    IF game.table_cards = <<>>
    THEN game.table_meld_type = None
    ELSE /\ game.table_meld_type = GetMeldType(game.table_cards)
         /\ game.table_meld_type = "SINGLE" => Len(game.table_cards) = 1

\* C32: while state is 'exchange' and the exchange waits for a person, on_play and
\* on_pass accept no intent, so that hands, table, finished_count and
\* current_player_idx change only through exchange submissions.
C32_NoPlayDuringExchange ==
    (pc = Idle /\ game.state = "exchange" /\ ~game.showing_2) =>
        \A pid \in Humans(game) :
            /\ ~PassTurn(game, pid).ok
            /\ \A cards \in Selections(game, pid) : ~PlayCards(game, pid, cards).ok

\* what save_game_to_disk followed by load_game_from_disk makes of the game
Reloaded == FromDict(ToDict(game))

\* C33: from_dict(to_dict(game)) has the players, hands, roles, finished positions,
\* pass flags, seat orders, current and lead indices, table, state, round number and
\* exchange sub-state of the game, so that a game saved while the exchange waits for
\* a person accepts after the reload every submission it accepted before.
C33_SerializeRoundTrip ==
    /\ Reloaded.players = game.players
    /\ Reloaded.player_keys = game.player_keys
    /\ Reloaded.player_order = game.player_order
    /\ Reloaded.original_player_order = game.original_player_order
    /\ Reloaded.current_player_idx = game.current_player_idx
    /\ Reloaded.lead_player_idx = game.lead_player_idx
    /\ Reloaded.table_cards = game.table_cards
    /\ Reloaded.table_meld_type = game.table_meld_type
    /\ Reloaded.finished_count = game.finished_count
    /\ Reloaded.state = game.state
    /\ Reloaded.round_num = game.round_num
    /\ Reloaded.exchange_state_enum = game.exchange_state_enum
    /\ \A pid \in Humans(game) : \A cards \in Selections(game, pid) :
          HumanSubmitExchange(game, pid, cards).ok
              => HumanSubmitExchange(Reloaded, pid, cards).ok

\* hands, table and turn are the same in the next state
MovesNothing ==
    /\ \A pid \in DOMAIN game.players :
          /\ pid \in DOMAIN game'.players
          /\ game'.players[pid].hand = game.players[pid].hand
    /\ game'.table_cards = game.table_cards
    /\ game'.table_meld_type = game.table_meld_type
    /\ game'.current_player_idx = game.current_player_idx

\* while on_play is suspended in its pause only its own clearing of the table moves
\* anything, and while on_cpu_play is suspended only its own move does
C34_SuspendedStep ==
    /\ (show2_wait /\ show2_wait') => MovesNothing
    /\ (cpu_wait # None /\ cpu_wait' # None) => MovesNothing

\* C34: an intent (play, pass, cpu_play, submit_exchange) that arrives while another
\* handler of the game is suspended at its delay leaves hands, table and turn
\* unchanged; the pending clearing of the table and the pending computer move are
\* each applied once.
C34_NoMoveWhileSuspended == [][C34_SuspendedStep]_vars

====
